---- MODULE Spec2Model ----
(***************************************************************************)
(* Model of the payments engine: TransactionProcessor::process over the    *)
(* SQLite-backed TxnDb (tables Clients, BalanceTransfers, Disputes,         *)
(* Resolutions), with the f64 arithmetic of the balances modelled as a     *)
(* small binary floating-point format (round to nearest, ties to even,     *)
(* overflow to infinity, NaN).                                             *)
(***************************************************************************)
EXTENDS Integers, FiniteSets, Sequences, TLC

\* ------------------------------------------------------------------------
\* Bounds of the model
\* ------------------------------------------------------------------------
\* number of significand bits of the floating-point format (f64 has 53)
P == 3
\* largest exponent of the floating-point format (f64 has 1023)
EMax == 1
\* transaction ids 1..NumTxns
NumTxns == 2
\* cap of the counter num_processed: at most MaxProcessed commands are applied
MaxProcessed == 5

\* the client ids of the input records
ClientIds == {1, 2}
TxnIds == 1..NumTxns

\* ------------------------------------------------------------------------
\* f64: values are integers in units of the smallest increment, plus
\* INF, -INF and NAN.  A finite value is m * 2^e, m < 2^P, e <= EMax.
\* ------------------------------------------------------------------------
RECURSIVE Pow2(_)
Pow2(n) == IF n = 0 THEN 1 ELSE 2 * Pow2(n - 1)

MaxFinite == (Pow2(P) - 1) * Pow2(EMax)
INF == 4 * MaxFinite
NAN == INF + 1

Abs(n) == IF n < 0 THEN -n ELSE n
Sgn(n) == IF n < 0 THEN -1 ELSE 1

\* exponent of the binade that holds the magnitude m
BinadeExp(m) ==
    CHOOSE e \in 0..(EMax + 2) :
        /\ m < Pow2(P + e)
        /\ (e = 0 \/ m >= Pow2(P + e - 1))

\* round a magnitude to P significant bits, nearest, ties to even
RoundMag(m) ==
    LET e == BinadeExp(m)
        q == m \div Pow2(e)
        r == m % Pow2(e)
        up == \/ 2 * r > Pow2(e)
              \/ (2 * r = Pow2(e) /\ q % 2 = 1)
    IN  (IF up THEN q + 1 ELSE q) * Pow2(e)

\* the f64 nearest to the exact integer n; overflow gives an infinity
Round(n) ==
    LET v == RoundMag(Abs(n))
    IN  IF v > MaxFinite THEN Sgn(n) * INF ELSE Sgn(n) * v

IsInf(x) == x = INF \/ x = -INF

\* unary minus of f64
fneg(x) == IF x = NAN THEN NAN ELSE -x

\* f64 addition
fadd(x, y) ==
    IF x = NAN \/ y = NAN THEN NAN
    ELSE IF IsInf(x) THEN (IF y = -x THEN NAN ELSE x)
    ELSE IF IsInf(y) THEN y
    ELSE Round(x + y)

\* f64 subtraction
fsub(x, y) == fadd(x, fneg(y))

\* f64 comparisons (false on NaN)
flt(x, y) == x # NAN /\ y # NAN /\ x < y
fle(x, y) == x # NAN /\ y # NAN /\ x <= y
feq(x, y) == x # NAN /\ y # NAN /\ x = y

\* the finite values of the format
Finite == { n \in (-MaxFinite)..MaxFinite : Round(n) = n }

\* ------------------------------------------------------------------------
\* model.rs
\* ------------------------------------------------------------------------
\* LockedState::to_u8
LockedState_to_u8(l) ==
    CASE l = "Invalid" -> 0
      [] l = "Locked" -> 1
      [] l = "Unlocked" -> 2

\* impl From<u8> for LockedState
LockedState_from(val) ==
    CASE val = 1 -> "Locked"
      [] val = 2 -> "Unlocked"
      [] OTHER -> "Invalid"

\* DisputeStatus::to_u8
DisputeStatus_to_u8(s) ==
    CASE s = "Invalid" -> 0
      [] s = "Open" -> 1
      [] s = "Resolved" -> 2
      [] s = "Chargeback" -> 3

\* mutant: a new account starts locked
ClientState_init_locked(client_id) ==
    [client_id |-> client_id, available |-> 0, held |-> 0, total |-> 0,
     locked |-> "Locked"]

\* ClientState::init (db.rs calls it as ClientState::new)
ClientState_init(client_id) ==
    [client_id |-> client_id, available |-> 0, held |-> 0, total |-> 0,
     locked |-> "Unlocked"]

\* ClientState::from_row
ClientState_from_row(row) ==
    [client_id |-> row.client_id, available |-> row.available,
     held |-> row.held, total |-> row.total,
     locked |-> LockedState_from(row.locked)]

\* mutant: only the Invalid state counts as locked
is_locked_invalid_only(state) == state.locked = "Invalid"

\* ClientState::is_locked
is_locked(state) == state.locked \in {"Locked", "Invalid"}

\* Option<f64>
NoAmount == [some |-> FALSE, val |-> 0]
SomeAmount(a) == [some |-> TRUE, val |-> a]
unwrap_or(opt, d) == IF opt.some THEN opt.val ELSE d

\* TxnType
TxnTypes == {"Invalid", "Deposit", "Withdrawal", "Dispute", "Resolve", "Chargeback"}

\* RawTxnInput
RawTxnInput(ty, c, t, amt) ==
    [txn_type |-> ty, client_id |-> c, txn_id |-> t, amount |-> amt]

\* Txn (the validated command); kind "None" stands for Option::None
Txn(kind, c, t, amount) ==
    [kind |-> kind, client_id |-> c, txn_id |-> t, amount |-> amount]

\* ------------------------------------------------------------------------
\* transaction_processor.rs: TransactionProcessor::validate_raw_input
\* ------------------------------------------------------------------------
validate_raw_input(txn) ==
    CASE txn.txn_type = "Invalid" -> Txn("None", txn.client_id, txn.txn_id, 0)
      [] txn.txn_type = "Deposit" ->
            LET amount == unwrap_or(txn.amount, -1)
            IN  IF fle(amount, 0)
                THEN Txn("None", txn.client_id, txn.txn_id, 0)
                ELSE Txn("BalanceTransfer", txn.client_id, txn.txn_id, amount)
      [] txn.txn_type = "Withdrawal" ->
            LET amount == unwrap_or(txn.amount, -1)
            IN  IF fle(amount, 0)
                THEN Txn("None", txn.client_id, txn.txn_id, 0)
                ELSE Txn("BalanceTransfer", txn.client_id, txn.txn_id, fneg(amount))
      [] txn.txn_type \in {"Dispute", "Resolve", "Chargeback"} ->
            IF txn.amount.some
            THEN Txn("None", txn.client_id, txn.txn_id, 0)
            ELSE Txn(txn.txn_type, txn.client_id, txn.txn_id, 0)

\* ------------------------------------------------------------------------
\* db.rs: TxnDb.  A db value is a record of the four tables:
\*   Clients          : client_id -> [client_id, available, held, total, locked]
\*   BalanceTransfers : set of [client_id, txn_id, amount]
\*   Disputes         : set of [client_id, txn_id]
\*   Resolutions      : set of [client_id, txn_id, status]
\* Foreign keys are enforced (test_balance_transfer_without_client,
\* test_dispute_without_client).
\* ------------------------------------------------------------------------
\* TxnDb::new: the four empty tables
TxnDb_new ==
    [Clients |-> << >>, BalanceTransfers |-> {}, Disputes |-> {}, Resolutions |-> {}]

\* SQLite binds a NaN as NULL, which a NOT NULL column refuses
SqlNull(x) == x = NAN

\* TxnDb::get_client_state: Some(state) iff the row exists
has_client_state(db, client_id) == client_id \in DOMAIN db.Clients
get_client_state(db, client_id) == ClientState_from_row(db.Clients[client_id])

\* the Clients row of a ClientState
ClientRow(client_state) ==
    [client_id |-> client_state.client_id, available |-> client_state.available,
     held |-> client_state.held, total |-> client_state.total,
     locked |-> LockedState_to_u8(client_state.locked)]

\* TxnDb::create_client_state: [ok, db]; the primary key refuses a second row
create_client_state(db, client_id) ==
    IF client_id \in DOMAIN db.Clients
    THEN [ok |-> FALSE, db |-> db]
    ELSE [ok |-> TRUE,
          db |-> [db EXCEPT !.Clients =
                     @ @@ (client_id :> ClientRow(ClientState_init(client_id)))]]

\* mutant: the UPDATE has no WHERE clause, every row takes the new balances
update_client_state_no_where(db, client_state) ==
    IF \/ SqlNull(client_state.available)
       \/ SqlNull(client_state.held)
       \/ SqlNull(client_state.total)
    THEN [ok |-> FALSE, db |-> db]
    ELSE [ok |-> TRUE,
          db |-> [db EXCEPT !.Clients =
                     [c \in DOMAIN @ |->
                         [@[c] EXCEPT !.available = client_state.available,
                                      !.held = client_state.held,
                                      !.total = client_state.total,
                                      !.locked = LockedState_to_u8(client_state.locked)]]]]

\* TxnDb::update_client_state: [ok, db]; a NULL (NaN) column is a database error,
\* an UPDATE that matches no row succeeds
update_client_state(db, client_state) ==
    IF \/ SqlNull(client_state.available)
       \/ SqlNull(client_state.held)
       \/ SqlNull(client_state.total)
    THEN [ok |-> FALSE, db |-> db]
    ELSE IF client_state.client_id \notin DOMAIN db.Clients
    THEN [ok |-> TRUE, db |-> db]
    ELSE [ok |-> TRUE,
          db |-> [db EXCEPT !.Clients[client_state.client_id] = ClientRow(client_state)]]

\* mutant: txn_id is unique per client only (no UNIQUE on txn_id)
try_insert_balance_transfer_pk_only(db, txn) ==
    IF /\ ~SqlNull(txn.amount)
       /\ \A b \in db.BalanceTransfers :
              ~(b.txn_id = txn.txn_id /\ b.client_id = txn.client_id)
       /\ txn.client_id \in DOMAIN db.Clients
    THEN [res |-> TRUE,
          db |-> [db EXCEPT !.BalanceTransfers = @ \cup
                     {[client_id |-> txn.client_id, txn_id |-> txn.txn_id,
                       amount |-> txn.amount]}]]
    ELSE [res |-> FALSE, db |-> db]

\* mutant: the foreign key to Clients is not enforced
try_insert_balance_transfer_no_fk(db, txn) ==
    IF /\ ~SqlNull(txn.amount)
       /\ \A b \in db.BalanceTransfers : b.txn_id # txn.txn_id
    THEN [res |-> TRUE,
          db |-> [db EXCEPT !.BalanceTransfers = @ \cup
                     {[client_id |-> txn.client_id, txn_id |-> txn.txn_id,
                       amount |-> txn.amount]}]]
    ELSE [res |-> FALSE, db |-> db]

\* TxnDb::try_insert_balance_transfer: [res, db]; false on a constraint violation
\* (NOT NULL amount, UNIQUE txn_id, primary key, foreign key to Clients)
try_insert_balance_transfer(db, txn) ==
    IF /\ ~SqlNull(txn.amount)
       /\ \A b \in db.BalanceTransfers : b.txn_id # txn.txn_id
       /\ txn.client_id \in DOMAIN db.Clients
    THEN [res |-> TRUE,
          db |-> [db EXCEPT !.BalanceTransfers = @ \cup
                     {[client_id |-> txn.client_id, txn_id |-> txn.txn_id,
                       amount |-> txn.amount]}]]
    ELSE [res |-> FALSE, db |-> db]

\* TxnDb::get_balance_transfer: Some(row) iff a row has this client_id and txn_id
has_balance_transfer(db, client_id, txn_id) ==
    \E b \in db.BalanceTransfers : b.client_id = client_id /\ b.txn_id = txn_id
get_balance_transfer(db, client_id, txn_id) ==
    CHOOSE b \in db.BalanceTransfers : b.client_id = client_id /\ b.txn_id = txn_id

\* mutant: the foreign key to BalanceTransfers covers txn_id alone
try_insert_dispute_fk_txn_only(db, client_id, txn_id) ==
    IF /\ [client_id |-> client_id, txn_id |-> txn_id] \notin db.Disputes
       /\ \E b \in db.BalanceTransfers : b.txn_id = txn_id
    THEN [res |-> TRUE,
          db |-> [db EXCEPT !.Disputes = @ \cup
                     {[client_id |-> client_id, txn_id |-> txn_id]}]]
    ELSE [res |-> FALSE, db |-> db]

\* mutant: the store holds one dispute row at most
try_insert_dispute_one_at_a_time(db, client_id, txn_id) ==
    IF /\ db.Disputes = {}
       /\ has_balance_transfer(db, client_id, txn_id)
    THEN [res |-> TRUE,
          db |-> [db EXCEPT !.Disputes = @ \cup
                     {[client_id |-> client_id, txn_id |-> txn_id]}]]
    ELSE [res |-> FALSE, db |-> db]

\* mutant: the foreign key to BalanceTransfers is not enforced
try_insert_dispute_no_fk(db, client_id, txn_id) ==
    IF [client_id |-> client_id, txn_id |-> txn_id] \notin db.Disputes
    THEN [res |-> TRUE,
          db |-> [db EXCEPT !.Disputes = @ \cup
                     {[client_id |-> client_id, txn_id |-> txn_id]}]]
    ELSE [res |-> FALSE, db |-> db]

\* mutant: the primary key of Disputes is not enforced
try_insert_dispute_no_pk(db, client_id, txn_id) ==
    IF has_balance_transfer(db, client_id, txn_id)
    THEN [res |-> TRUE,
          db |-> [db EXCEPT !.Disputes = @ \cup
                     {[client_id |-> client_id, txn_id |-> txn_id]}]]
    ELSE [res |-> FALSE, db |-> db]

\* TxnDb::try_insert_dispute: [res, db]; false on a constraint violation
\* (primary key, foreign key to BalanceTransfers(client_id, txn_id))
try_insert_dispute(db, client_id, txn_id) ==
    IF /\ [client_id |-> client_id, txn_id |-> txn_id] \notin db.Disputes
       /\ has_balance_transfer(db, client_id, txn_id)
    THEN [res |-> TRUE,
          db |-> [db EXCEPT !.Disputes = @ \cup
                     {[client_id |-> client_id, txn_id |-> txn_id]}]]
    ELSE [res |-> FALSE, db |-> db]

\* mutant: the primary key of Resolutions is not enforced
insert_resolution_no_pk(db, client_id, txn_id, status) ==
    IF [client_id |-> client_id, txn_id |-> txn_id] \in db.Disputes
    THEN [res |-> TRUE,
          db |-> [db EXCEPT !.Resolutions = @ \cup
                     {[client_id |-> client_id, txn_id |-> txn_id, status |-> status]}]]
    ELSE [res |-> FALSE, db |-> db]

\* mutant: INSERT OR REPLACE, a stored resolution is overwritten
insert_resolution_replaces(db, client_id, txn_id, status) ==
    IF [client_id |-> client_id, txn_id |-> txn_id] \in db.Disputes
    THEN [res |-> TRUE,
          db |-> [db EXCEPT !.Resolutions =
                     {r \in @ : ~(r.client_id = client_id /\ r.txn_id = txn_id)} \cup
                     {[client_id |-> client_id, txn_id |-> txn_id, status |-> status]}]]
    ELSE [res |-> FALSE, db |-> db]

\* mutant: the foreign key to Disputes is not enforced
insert_resolution_no_fk(db, client_id, txn_id, status) ==
    IF \A r \in db.Resolutions : ~(r.client_id = client_id /\ r.txn_id = txn_id)
    THEN [res |-> TRUE,
          db |-> [db EXCEPT !.Resolutions = @ \cup
                     {[client_id |-> client_id, txn_id |-> txn_id, status |-> status]}]]
    ELSE [res |-> FALSE, db |-> db]

\* INSERT INTO Resolutions: false on a constraint violation
\* (primary key, foreign key to Disputes(client_id, txn_id))
insert_resolution(db, client_id, txn_id, status) ==
    IF /\ \A r \in db.Resolutions : ~(r.client_id = client_id /\ r.txn_id = txn_id)
       /\ [client_id |-> client_id, txn_id |-> txn_id] \in db.Disputes
    THEN [res |-> TRUE,
          db |-> [db EXCEPT !.Resolutions = @ \cup
                     {[client_id |-> client_id, txn_id |-> txn_id, status |-> status]}]]
    ELSE [res |-> FALSE, db |-> db]

\* TxnDb::try_resolve_dispute
try_resolve_dispute(db, client_id, txn_id) ==
    insert_resolution(db, client_id, txn_id, DisputeStatus_to_u8("Resolved"))

\* TxnDb::try_chargeback_dispute
try_chargeback_dispute(db, client_id, txn_id) ==
    insert_resolution(db, client_id, txn_id, DisputeStatus_to_u8("Chargeback"))

\* ------------------------------------------------------------------------
\* transaction_processor.rs: TransactionProcessor::process
\* The value of a call is [db, num_processed, result, path]: the database and
\* the counter after the call, Ok or Err, and the branch the call left by.
\* ------------------------------------------------------------------------
Outcome(db, num, result, path) ==
    [db |-> db, num_processed |-> num, result |-> result, path |-> path]

\* mutant: the account is written back without recomputing total
store_state_stale_total(db, state, num, path) ==
    LET upd == update_client_state(db, state)
    IN  IF upd.ok
        THEN Outcome(upd.db, num, "Ok", path)
        ELSE Outcome(db, num, "Err", "update_failed")

\* lines 149-152: recompute total, write the account back
store_state(db, state, num, path) ==
    LET state2 == [state EXCEPT !.total = fadd(state.available, state.held)]
        upd == update_client_state(db, state2)
    IN  IF upd.ok
        THEN Outcome(upd.db, num, "Ok", path)
        ELSE Outcome(db, num, "Err", "update_failed")

\* mutant: the funds check applies to deposits as well
process_balance_transfer_checks_deposits(db, state, num, transfer) ==
    IF flt(fadd(state.available, transfer.amount), 0)
    THEN Outcome(db, num, "Ok", "insufficient_funds")
    ELSE LET ins == try_insert_balance_transfer(db, transfer)
         IN  IF ins.res
             THEN store_state(ins.db,
                              [state EXCEPT !.available = fadd(@, transfer.amount)],
                              num + 1, "transfer_applied")
             ELSE store_state(ins.db, state, num, "transfer_rejected")

\* mutant: a withdrawal of the whole available amount is refused
process_balance_transfer_strict(db, state, num, transfer) ==
    IF flt(transfer.amount, 0) /\ fle(fadd(state.available, transfer.amount), 0)
    THEN Outcome(db, num, "Ok", "insufficient_funds")
    ELSE LET ins == try_insert_balance_transfer(db, transfer)
         IN  IF ins.res
             THEN store_state(ins.db,
                              [state EXCEPT !.available = fadd(@, transfer.amount)],
                              num + 1, "transfer_applied")
             ELSE store_state(ins.db, state, num, "transfer_rejected")

\* mutant: there is no funds check
process_balance_transfer_no_check(db, state, num, transfer) ==
    LET ins == try_insert_balance_transfer(db, transfer)
    IN  IF ins.res
        THEN store_state(ins.db,
                         [state EXCEPT !.available = fadd(@, transfer.amount)],
                         num + 1, "transfer_applied")
        ELSE store_state(ins.db, state, num, "transfer_rejected")

\* mutant: the transfer is inserted before the funds check
process_balance_transfer_insert_first(db, state, num, transfer) ==
    LET ins == try_insert_balance_transfer(db, transfer)
    IN  IF flt(transfer.amount, 0) /\ flt(fadd(state.available, transfer.amount), 0)
        THEN Outcome(ins.db, num, "Ok", "insufficient_funds")
        ELSE IF ins.res
             THEN store_state(ins.db,
                              [state EXCEPT !.available = fadd(@, transfer.amount)],
                              num + 1, "transfer_applied")
             ELSE store_state(ins.db, state, num, "transfer_rejected")

\* mutant: the funds check looks at available alone
process_balance_transfer_weak_check(db, state, num, transfer) ==
    IF flt(transfer.amount, 0) /\ flt(state.available, 0)
    THEN Outcome(db, num, "Ok", "insufficient_funds")
    ELSE LET ins == try_insert_balance_transfer(db, transfer)
         IN  IF ins.res
             THEN store_state(ins.db,
                              [state EXCEPT !.available = fadd(@, transfer.amount)],
                              num + 1, "transfer_applied")
             ELSE store_state(ins.db, state, num, "transfer_rejected")

\* lines 50-63: Txn::BalanceTransfer
process_balance_transfer(db, state, num, transfer) ==
    IF flt(transfer.amount, 0) /\ flt(fadd(state.available, transfer.amount), 0)
    THEN Outcome(db, num, "Ok", "insufficient_funds")
    ELSE LET ins == try_insert_balance_transfer(db, transfer)
         IN  IF ins.res
             THEN store_state(ins.db,
                              [state EXCEPT !.available = fadd(@, transfer.amount)],
                              num + 1, "transfer_applied")
             ELSE store_state(ins.db, state, num, "transfer_rejected")

\* mutant: a disputed withdrawal is taken from available a second time
dispute_state_debits_withdrawal(state, balance_transfer) ==
    IF flt(balance_transfer.amount, 0)
    THEN [state EXCEPT !.held = fsub(@, balance_transfer.amount),
                       !.available = fadd(@, balance_transfer.amount)]
    ELSE [state EXCEPT !.held = fadd(@, balance_transfer.amount),
                       !.available = fsub(@, balance_transfer.amount)]

\* mutant: a disputed withdrawal is given back to available
dispute_state_refunds(state, balance_transfer) ==
    IF flt(balance_transfer.amount, 0)
    THEN [state EXCEPT !.held = fsub(@, balance_transfer.amount),
                       !.available = fsub(@, balance_transfer.amount)]
    ELSE [state EXCEPT !.held = fadd(@, balance_transfer.amount),
                       !.available = fsub(@, balance_transfer.amount)]

\* mutant: a disputed deposit is held but stays available
dispute_state_stays_available(state, balance_transfer) ==
    IF flt(balance_transfer.amount, 0)
    THEN [state EXCEPT !.held = fsub(@, balance_transfer.amount)]
    ELSE [state EXCEPT !.held = fadd(@, balance_transfer.amount)]

\* lines 79-87: the balance change of a dispute
dispute_state(state, balance_transfer) ==
    IF flt(balance_transfer.amount, 0)
    THEN [state EXCEPT !.held = fsub(@, balance_transfer.amount)]
    ELSE [state EXCEPT !.held = fadd(@, balance_transfer.amount),
                       !.available = fsub(@, balance_transfer.amount)]

\* mutant: a resolve gives a deposit back to available but keeps it held
resolve_state_keeps_held(state, balance_transfer) ==
    IF flt(balance_transfer.amount, 0)
    THEN state
    ELSE [state EXCEPT !.available = fadd(@, balance_transfer.amount)]

\* mutant: a resolved deposit is not released back to available
resolve_state_no_release(state, balance_transfer) ==
    IF flt(balance_transfer.amount, 0)
    THEN [state EXCEPT !.held = fadd(@, balance_transfer.amount)]
    ELSE [state EXCEPT !.held = fsub(@, balance_transfer.amount)]

\* mutant: a resolved withdrawal is given back to available
resolve_state_refunds(state, balance_transfer) ==
    IF flt(balance_transfer.amount, 0)
    THEN [state EXCEPT !.held = fadd(@, balance_transfer.amount),
                       !.available = fsub(@, balance_transfer.amount)]
    ELSE [state EXCEPT !.held = fsub(@, balance_transfer.amount),
                       !.available = fadd(@, balance_transfer.amount)]

\* lines 106-114: the balance change of a resolve
resolve_state(state, balance_transfer) ==
    IF flt(balance_transfer.amount, 0)
    THEN [state EXCEPT !.held = fadd(@, balance_transfer.amount)]
    ELSE [state EXCEPT !.held = fsub(@, balance_transfer.amount),
                       !.available = fadd(@, balance_transfer.amount)]

\* mutant: a charged back deposit is released to available, as a resolve does
chargeback_state_releases_deposit(state, balance_transfer) ==
    LET s == IF flt(balance_transfer.amount, 0)
             THEN [state EXCEPT !.held = fadd(@, balance_transfer.amount),
                                !.available = fsub(@, balance_transfer.amount)]
             ELSE [state EXCEPT !.held = fsub(@, balance_transfer.amount),
                                !.available = fadd(@, balance_transfer.amount)]
    IN  [s EXCEPT !.locked = "Locked"]

\* mutant: the chargeback moves the funds but does not lock the account
chargeback_state_no_lock(state, balance_transfer) ==
    IF flt(balance_transfer.amount, 0)
    THEN [state EXCEPT !.held = fadd(@, balance_transfer.amount),
                       !.available = fsub(@, balance_transfer.amount)]
    ELSE [state EXCEPT !.held = fsub(@, balance_transfer.amount)]

\* mutant: a charged back deposit is taken from available once more
chargeback_state_deducts_again(state, balance_transfer) ==
    LET s == IF flt(balance_transfer.amount, 0)
             THEN [state EXCEPT !.held = fadd(@, balance_transfer.amount),
                                !.available = fsub(@, balance_transfer.amount)]
             ELSE [state EXCEPT !.held = fsub(@, balance_transfer.amount),
                                !.available = fsub(@, balance_transfer.amount)]
    IN  [s EXCEPT !.locked = "Locked"]

\* mutant: a charged back withdrawal is not returned to available
chargeback_state_keeps_withdrawal(state, balance_transfer) ==
    LET s == IF flt(balance_transfer.amount, 0)
             THEN [state EXCEPT !.held = fadd(@, balance_transfer.amount)]
             ELSE [state EXCEPT !.held = fsub(@, balance_transfer.amount)]
    IN  [s EXCEPT !.locked = "Locked"]

\* lines 133-143: the balance change of a chargeback, and the lock
chargeback_state(state, balance_transfer) ==
    LET s == IF flt(balance_transfer.amount, 0)
             THEN [state EXCEPT !.held = fadd(@, balance_transfer.amount),
                                !.available = fsub(@, balance_transfer.amount)]
             ELSE [state EXCEPT !.held = fsub(@, balance_transfer.amount)]
    IN  [s EXCEPT !.locked = "Locked"]

\* mutant: a dispute of a deposit is refused when available does not cover it
process_dispute_checks_funds(db, state, num, txn) ==
    IF /\ has_balance_transfer(db, txn.client_id, txn.txn_id)
       /\ flt(state.available, get_balance_transfer(db, txn.client_id, txn.txn_id).amount)
    THEN Outcome(db, num, "Ok", "insufficient_funds")
    ELSE LET ins == try_insert_dispute(db, txn.client_id, txn.txn_id)
         IN  IF ins.res
             THEN IF ~has_balance_transfer(ins.db, txn.client_id, txn.txn_id)
                  THEN Outcome(ins.db, num, "Err", "invariant_violation")
                  ELSE store_state(ins.db,
                           dispute_state(state,
                               get_balance_transfer(ins.db, txn.client_id, txn.txn_id)),
                           num + 1, "dispute_applied")
             ELSE store_state(ins.db, state, num, "dispute_rejected")

\* lines 64-90: Txn::Dispute
process_dispute(db, state, num, txn) ==
    LET ins == try_insert_dispute(db, txn.client_id, txn.txn_id)
    IN  IF ins.res
        THEN IF ~has_balance_transfer(ins.db, txn.client_id, txn.txn_id)
             THEN Outcome(ins.db, num, "Err", "invariant_violation")
             ELSE store_state(ins.db,
                      dispute_state(state,
                          get_balance_transfer(ins.db, txn.client_id, txn.txn_id)),
                      num + 1, "dispute_applied")
        ELSE store_state(ins.db, state, num, "dispute_rejected")

\* mutant: an applied resolve is not counted
process_resolve_uncounted(db, state, num, txn) ==
    LET ins == try_resolve_dispute(db, txn.client_id, txn.txn_id)
    IN  IF ins.res
        THEN IF ~has_balance_transfer(ins.db, txn.client_id, txn.txn_id)
             THEN Outcome(ins.db, num, "Err", "invariant_violation")
             ELSE store_state(ins.db,
                      resolve_state(state,
                          get_balance_transfer(ins.db, txn.client_id, txn.txn_id)),
                      num, "resolve_applied")
        ELSE store_state(ins.db, state, num, "resolve_rejected")

\* lines 91-117: Txn::Resolve
process_resolve(db, state, num, txn) ==
    LET ins == try_resolve_dispute(db, txn.client_id, txn.txn_id)
    IN  IF ins.res
        THEN IF ~has_balance_transfer(ins.db, txn.client_id, txn.txn_id)
             THEN Outcome(ins.db, num, "Err", "invariant_violation")
             ELSE store_state(ins.db,
                      resolve_state(state,
                          get_balance_transfer(ins.db, txn.client_id, txn.txn_id)),
                      num + 1, "resolve_applied")
        ELSE store_state(ins.db, state, num, "resolve_rejected")

\* lines 118-146: Txn::Chargeback
process_chargeback(db, state, num, txn) ==
    LET ins == try_chargeback_dispute(db, txn.client_id, txn.txn_id)
    IN  IF ins.res
        THEN IF ~has_balance_transfer(ins.db, txn.client_id, txn.txn_id)
             THEN Outcome(ins.db, num, "Err", "invariant_violation")
             ELSE store_state(ins.db,
                      chargeback_state(state,
                          get_balance_transfer(ins.db, txn.client_id, txn.txn_id)),
                      num + 1, "chargeback_applied")
        ELSE store_state(ins.db, state, num, "chargeback_rejected")

\* mutant: the lock is looked at after the transfer has been stored
process_stores_before_lock(db, num, raw_input) ==
    LET txn == validate_raw_input(raw_input)
    IN  IF txn.kind = "None"
        THEN Outcome(db, num, "Ok", "dropped")
        ELSE LET db1 == IF has_client_state(db, raw_input.client_id)
                        THEN db
                        ELSE create_client_state(db, raw_input.client_id).db
                 state == get_client_state(db1, raw_input.client_id)
                 db2 == IF txn.kind = "BalanceTransfer"
                        THEN try_insert_balance_transfer(db1, txn).db
                        ELSE db1
             IN  IF is_locked(state)
                 THEN Outcome(db2, num, "Ok", "locked")
                 ELSE CASE txn.kind = "BalanceTransfer" ->
                               process_balance_transfer(db1, state, num, txn)
                        [] txn.kind = "Dispute" -> process_dispute(db1, state, num, txn)
                        [] txn.kind = "Resolve" -> process_resolve(db1, state, num, txn)
                        [] txn.kind = "Chargeback" ->
                               process_chargeback(db1, state, num, txn)

\* mutant: the lock stops deposits and withdrawals only
process_locks_transfers_only(db, num, raw_input) ==
    LET txn == validate_raw_input(raw_input)
    IN  IF txn.kind = "None"
        THEN Outcome(db, num, "Ok", "dropped")
        ELSE LET db1 == IF has_client_state(db, raw_input.client_id)
                        THEN db
                        ELSE create_client_state(db, raw_input.client_id).db
                 state == get_client_state(db1, raw_input.client_id)
             IN  IF is_locked(state) /\ txn.kind = "BalanceTransfer"
                 THEN Outcome(db1, num, "Ok", "locked")
                 ELSE CASE txn.kind = "BalanceTransfer" ->
                               process_balance_transfer(db1, state, num, txn)
                        [] txn.kind = "Dispute" -> process_dispute(db1, state, num, txn)
                        [] txn.kind = "Resolve" -> process_resolve(db1, state, num, txn)
                        [] txn.kind = "Chargeback" ->
                               process_chargeback(db1, state, num, txn)

\* mutant: the account is looked up or created before the record is validated
process_creates_first(db, num, raw_input) ==
    LET txn == validate_raw_input(raw_input)
        db1 == IF has_client_state(db, raw_input.client_id)
               THEN db
               ELSE create_client_state(db, raw_input.client_id).db
        state == get_client_state(db1, raw_input.client_id)
    IN  IF txn.kind = "None"
        THEN Outcome(db1, num, "Ok", "dropped")
        ELSE IF is_locked(state)
        THEN Outcome(db1, num, "Ok", "locked")
        ELSE CASE txn.kind = "BalanceTransfer" ->
                      process_balance_transfer(db1, state, num, txn)
               [] txn.kind = "Dispute" -> process_dispute(db1, state, num, txn)
               [] txn.kind = "Resolve" -> process_resolve(db1, state, num, txn)
               [] txn.kind = "Chargeback" ->
                      process_chargeback(db1, state, num, txn)

\* lines 31-153: TransactionProcessor::process
process(db, num, raw_input) ==
    LET txn == validate_raw_input(raw_input)
    IN  IF txn.kind = "None"
        THEN Outcome(db, num, "Ok", "dropped")
        ELSE LET db1 == IF has_client_state(db, raw_input.client_id)
                        THEN db
                        ELSE create_client_state(db, raw_input.client_id).db
                 state == get_client_state(db1, raw_input.client_id)
             IN  IF is_locked(state)
                 THEN Outcome(db1, num, "Ok", "locked")
                 ELSE CASE txn.kind = "BalanceTransfer" ->
                               process_balance_transfer(db1, state, num, txn)
                        [] txn.kind = "Dispute" -> process_dispute(db1, state, num, txn)
                        [] txn.kind = "Resolve" -> process_resolve(db1, state, num, txn)
                        [] txn.kind = "Chargeback" ->
                               process_chargeback(db1, state, num, txn)

\* ------------------------------------------------------------------------
\* The inputs
\* ------------------------------------------------------------------------
\* amounts of valid deposits and withdrawals: a small one, the largest odd
\* value (so that sums are rounded), and infinity ("inf" parses as an f64)
ValidAmounts == {2, Pow2(P) - 1, INF}
\* the amount column of a deposit or withdrawal record
TransferAmounts ==
    {NoAmount, SomeAmount(0), SomeAmount(-2), SomeAmount(NAN)}
        \cup {SomeAmount(a) : a \in ValidAmounts}
\* the amount column of any other record
OtherAmounts == {NoAmount, SomeAmount(1)}

RawInputs ==
    {RawTxnInput(ty, c, t, amt) :
        ty \in {"Deposit", "Withdrawal"}, c \in ClientIds, t \in TxnIds,
        amt \in TransferAmounts}
    \cup
    {RawTxnInput(ty, c, t, amt) :
        ty \in {"Invalid", "Dispute", "Resolve", "Chargeback"}, c \in ClientIds,
        t \in TxnIds, amt \in OtherAmounts}

\* ------------------------------------------------------------------------
\* bin/payments_engine.rs: the executable.  Its run is the record exe:
\*   pc        : "main" (checking the argument), "init" (TxnDb::new),
\*               "loop" (reading records), "exited"
\*   exit_code : the ExitCode main returned, ExitNone before that
\*   run       : what process_transactions returned: "none", "Ok", "Err"
\*   file      : the backing file of the store: "absent", "empty" (created,
\*               no table yet) or "tables"
\*   clients   : TransactionProcessor.clients, the HashMap printed by display
\*   printed   : whether the header line was written
\*   lines     : the account lines written after the header
\*   record    : the last record handed to process
\*   n         : the number of rows read
\* ------------------------------------------------------------------------
\* the number of input rows of a run
MaxRecords == 2

\* ExitCode::SUCCESS, ExitCode::FAILURE
ExitCode_SUCCESS == 0
ExitCode_FAILURE == 1
ExitNone == -1

NoRecord == RawTxnInput("Invalid", 0, 0, NoAmount)

\* the state of a run at the start of main; file is what the random file
\* name of the store names before the run ("tables": a file left behind)
ExeStart(file) ==
    [pc |-> "main", exit_code |-> ExitNone, run |-> "none", file |-> file,
     clients |-> << >>, printed |-> FALSE, lines |-> {}, record |-> NoRecord,
     n |-> 0]

\* the statements of TxnDb::new that can fail
TxnDbNewSteps ==
    {"open", "drop_clients", "create_clients", "create_transfers",
     "create_disputes", "create_resolutions"}

\* TxnDb::new when `step` fails: the file after the call.  Connection::open
\* creates the file; no TxnDb value exists, so Drop for TxnDb does not run.
TxnDb_new_failed(file, step) ==
    IF step = "open" THEN file
    ELSE IF file = "absent" THEN "empty"
    ELSE file

\* TxnDb::new can succeed: the tables it creates do not exist yet (only
\* Clients is dropped when the file exists)
TxnDb_new_can_succeed(file) == file \in {"absent", "empty"}

\* Drop for TxnDb: fs::remove_file
TxnDb_drop(file) == "absent"

\* bin TransactionProcessor::process: [clients, result].  The account is
\* looked up or initialised in a local copy; no branch stores the copy.
bin_process(clients, raw_input) ==
    LET txn == validate_raw_input(raw_input)
        state == IF raw_input.client_id \in DOMAIN clients
                 THEN clients[raw_input.client_id]
                 ELSE ClientState_init(raw_input.client_id)
    IN  IF txn.kind = "None" THEN [clients |-> clients, result |-> "Ok"]
        ELSE IF is_locked(state) THEN [clients |-> clients, result |-> "Ok"]
        ELSE IF /\ txn.kind = "BalanceTransfer"
                /\ flt(txn.amount, 0)
                /\ flt(fadd(state.available, txn.amount), 0)
        THEN [clients |-> clients, result |-> "Ok"]
        ELSE [clients |-> clients, result |-> "Ok"]

\* bin TransactionProcessor::display: one line per entry of clients
bin_display(clients) ==
    {[client |-> c, available |-> clients[c].available, held |-> clients[c].held,
      total |-> clients[c].total, locked |-> clients[c].locked] :
        c \in DOMAIN clients}

\* ------------------------------------------------------------------------
\* One status per (client_id, txn_id): the dispute record with insert-if-absent
\* and compare-and-set that the two dispute tables of db.rs stand for.  A call
\* gives [res, status].
\* ------------------------------------------------------------------------
DisputeModelStart ==
    [status |-> [k \in ClientIds \X TxnIds |-> "None"],
     call |-> "none", client_id |-> 0, txn_id |-> 0,
     store_res |-> FALSE, model_res |-> FALSE]

\* insert-if-absent of a dispute that references an existing transfer
model_try_insert_dispute(status, transfers, client_id, txn_id) ==
    IF /\ status[<<client_id, txn_id>>] = "None"
       /\ \E b \in transfers : b.client_id = client_id /\ b.txn_id = txn_id
    THEN [res |-> TRUE, status |-> [status EXCEPT ![<<client_id, txn_id>>] = "Open"]]
    ELSE [res |-> FALSE, status |-> status]

\* compare-and-set: false if no dispute exists or it is not in from_status
model_try_transition_dispute(status, client_id, txn_id, from_status, to_status) ==
    IF status[<<client_id, txn_id>>] = from_status
    THEN [res |-> TRUE, status |-> [status EXCEPT ![<<client_id, txn_id>>] = to_status]]
    ELSE [res |-> FALSE, status |-> status]

\* ------------------------------------------------------------------------
\* The state machine
\* ------------------------------------------------------------------------
VARIABLES
    db,             \* TransactionProcessor.db
    num_processed,  \* TransactionProcessor.num_processed
    result,         \* what the last call of process returned: "Ok" or "Err"
    path,           \* the branch the last call of process left by
    exe,            \* the run of the executable (bin/payments_engine.rs)
    dispute_model   \* one status per (client_id, txn_id), run beside the store

vars == <<db, num_processed, result, path, exe, dispute_model>>

\* TransactionProcessor::new
Init ==
    /\ db = TxnDb_new
    /\ num_processed = 0
    /\ result = "Ok"
    /\ path = "new"
    /\ exe = ExeStart("absent")
    /\ dispute_model = DisputeModelStart

\* one call of process, which takes the database and the counter to `out`;
\* the callers stop at the first Err
Call(out) ==
    /\ out.num_processed <= MaxProcessed
    /\ db' = out.db
    /\ num_processed' = out.num_processed
    /\ result' = out.result
    /\ path' = out.path
    /\ exe' = exe
    /\ dispute_model' = dispute_model

Deposit ==
    /\ result = "Ok"
    /\ \E c \in ClientIds, t \in TxnIds, amt \in TransferAmounts :
        \E out \in {process(db, num_processed, RawTxnInput("Deposit", c, t, amt))} :
            Call(out)

Withdrawal ==
    /\ result = "Ok"
    /\ \E c \in ClientIds, t \in TxnIds, amt \in TransferAmounts :
        \E out \in {process(db, num_processed, RawTxnInput("Withdrawal", c, t, amt))} :
            Call(out)

Dispute ==
    /\ result = "Ok"
    /\ \E c \in ClientIds, t \in TxnIds, amt \in OtherAmounts :
        \E out \in {process(db, num_processed, RawTxnInput("Dispute", c, t, amt))} :
            Call(out)

Resolve ==
    /\ result = "Ok"
    /\ \E c \in ClientIds, t \in TxnIds, amt \in OtherAmounts :
        \E out \in {process(db, num_processed, RawTxnInput("Resolve", c, t, amt))} :
            Call(out)

Chargeback ==
    /\ result = "Ok"
    /\ \E c \in ClientIds, t \in TxnIds, amt \in OtherAmounts :
        \E out \in {process(db, num_processed, RawTxnInput("Chargeback", c, t, amt))} :
            Call(out)

InvalidRecord ==
    /\ result = "Ok"
    /\ \E c \in ClientIds, t \in TxnIds, amt \in OtherAmounts :
        \E out \in {process(db, num_processed, RawTxnInput("Invalid", c, t, amt))} :
            Call(out)

Next ==
    \/ Deposit
    \/ Withdrawal
    \/ Dispute
    \/ Resolve
    \/ Chargeback
    \/ InvalidRecord

Spec == Init /\ [][Next]_vars

\* ------------------------------------------------------------------------
\* The run of the executable
\* ------------------------------------------------------------------------
ExeInit ==
    /\ db = TxnDb_new
    /\ num_processed = 0
    /\ result = "Ok"
    /\ path = "new"
    /\ exe \in {ExeStart(f) : f \in {"absent", "tables"}}
    /\ dispute_model = DisputeModelStart

\* main, lines 8-39: a missing argument, a missing path, a path that is not
\* a file or a file that cannot be opened ends the run with FAILURE
MainRejectsInput ==
    /\ exe.pc = "main"
    /\ exe' = [exe EXCEPT !.pc = "exited", !.exit_code = ExitCode_FAILURE]
    /\ UNCHANGED <<db, num_processed, result, path, dispute_model>>

\* main, lines 8-39: the input file is open
MainOpensInput ==
    /\ exe.pc = "main"
    /\ exe' = [exe EXCEPT !.pc = "init"]
    /\ UNCHANGED <<db, num_processed, result, path, dispute_model>>

\* process_transactions line 49 with TxnDb::new failing at some statement,
\* then main lines 41-45: the report is printed and main returns SUCCESS
TxnDbNewFails ==
    /\ exe.pc = "init"
    /\ \E step \in TxnDbNewSteps :
        /\ step = "drop_clients" => exe.file # "absent"
        /\ exe' = [exe EXCEPT !.pc = "exited", !.run = "Err",
                              !.file = TxnDb_new_failed(exe.file, step),
                              !.exit_code = ExitCode_SUCCESS]
    /\ UNCHANGED <<db, num_processed, result, path, dispute_model>>

\* process_transactions line 49 with TxnDb::new succeeding
TxnDbNewOk ==
    /\ exe.pc = "init"
    /\ TxnDb_new_can_succeed(exe.file)
    /\ exe' = [exe EXCEPT !.pc = "loop", !.file = "tables"]
    /\ UNCHANGED <<db, num_processed, result, path, dispute_model>>

\* process_transactions lines 54-62: a row that deserializes is processed
ReadRecord ==
    /\ exe.pc = "loop"
    /\ exe.n < MaxRecords
    /\ \E raw \in RawInputs :
        \E out \in {bin_process(exe.clients, raw)} :
            /\ out.result = "Ok"
            /\ exe' = [exe EXCEPT !.clients = out.clients, !.record = raw,
                                  !.n = @ + 1]
    /\ UNCHANGED <<db, num_processed, result, path, dispute_model>>

\* process_transactions lines 54-62: a row that does not parse is skipped
SkipRecord ==
    /\ exe.pc = "loop"
    /\ exe.n < MaxRecords
    /\ exe' = [exe EXCEPT !.n = @ + 1]
    /\ UNCHANGED <<db, num_processed, result, path, dispute_model>>

\* process_transactions lines 64-65 at the end of the input: display, the
\* processor is dropped, Ok; then main line 45
EndOfInput ==
    /\ exe.pc = "loop"
    /\ exe' = [exe EXCEPT !.pc = "exited", !.run = "Ok", !.printed = TRUE,
                          !.lines = bin_display(exe.clients),
                          !.file = TxnDb_drop(exe.file),
                          !.exit_code = ExitCode_SUCCESS]
    /\ UNCHANGED <<db, num_processed, result, path, dispute_model>>

ExeNext ==
    \/ MainRejectsInput
    \/ MainOpensInput
    \/ TxnDbNewFails
    \/ TxnDbNewOk
    \/ ReadRecord
    \/ SkipRecord
    \/ EndOfInput

ExeSpec == ExeInit /\ [][ExeNext]_vars

\* ------------------------------------------------------------------------
\* The store called directly (as the tests of db.rs call it), each dispute
\* call made on the status model as well
\* ------------------------------------------------------------------------
StoreInit ==
    /\ db = TxnDb_new
    /\ num_processed = 0
    /\ result = "Ok"
    /\ path = "new"
    /\ exe = ExeStart("absent")
    /\ dispute_model = DisputeModelStart

\* the two models after a dispute call on (c, t) with outcomes s and m
DisputeCall(call, c, t, s, m) ==
    /\ db' = s.db
    /\ dispute_model' = [status |-> m.status, call |-> call, client_id |-> c,
                         txn_id |-> t, store_res |-> s.res, model_res |-> m.res]
    /\ UNCHANGED <<num_processed, result, path, exe>>

StoreCreateClient ==
    /\ \E c \in ClientIds : db' = create_client_state(db, c).db
    /\ UNCHANGED <<num_processed, result, path, exe, dispute_model>>

StoreInsertTransfer ==
    /\ \E c \in ClientIds, t \in TxnIds, a \in {2, -2} :
        db' = try_insert_balance_transfer(
                  db, [client_id |-> c, txn_id |-> t, amount |-> a]).db
    /\ UNCHANGED <<num_processed, result, path, exe, dispute_model>>

StoreInsertDispute ==
    \E c \in ClientIds, t \in TxnIds :
        DisputeCall("try_insert_dispute", c, t,
            try_insert_dispute(db, c, t),
            model_try_insert_dispute(dispute_model.status, db.BalanceTransfers, c, t))

StoreResolveDispute ==
    \E c \in ClientIds, t \in TxnIds :
        DisputeCall("try_resolve_dispute", c, t,
            try_resolve_dispute(db, c, t),
            model_try_transition_dispute(dispute_model.status, c, t, "Open", "Resolved"))

StoreChargebackDispute ==
    \E c \in ClientIds, t \in TxnIds :
        DisputeCall("try_chargeback_dispute", c, t,
            try_chargeback_dispute(db, c, t),
            model_try_transition_dispute(dispute_model.status, c, t, "Open", "Chargeback"))

StoreNext ==
    \/ StoreCreateClient
    \/ StoreInsertTransfer
    \/ StoreInsertDispute
    \/ StoreResolveDispute
    \/ StoreChargebackDispute

StoreSpec == StoreInit /\ [][StoreNext]_vars

\* ------------------------------------------------------------------------
\* One client with three transaction ids and amounts whose f64 sum is rounded
\* up: process called with longer sequences of records
\* ------------------------------------------------------------------------
LedgerNumTxns == 3
LedgerMaxProcessed == 7
LedgerClients == {1}
LedgerTxnIds == 1..LedgerNumTxns
\* x, y and the f64 sum x + y, which is greater than the sum of x and y
LedgerAmounts == {Pow2(P - 1), Pow2(P) - 1, fadd(Pow2(P - 1), Pow2(P) - 1)}

LedgerCall(out) ==
    /\ out.num_processed <= LedgerMaxProcessed
    /\ db' = out.db
    /\ num_processed' = out.num_processed
    /\ result' = out.result
    /\ path' = out.path
    /\ UNCHANGED <<exe, dispute_model>>

LedgerDeposit ==
    /\ result = "Ok"
    /\ \E c \in LedgerClients, t \in LedgerTxnIds, a \in LedgerAmounts :
        \E out \in {process(db, num_processed,
                            RawTxnInput("Deposit", c, t, SomeAmount(a)))} :
            LedgerCall(out)

LedgerWithdrawal ==
    /\ result = "Ok"
    /\ \E c \in LedgerClients, t \in LedgerTxnIds, a \in LedgerAmounts :
        \E out \in {process(db, num_processed,
                            RawTxnInput("Withdrawal", c, t, SomeAmount(a)))} :
            LedgerCall(out)

LedgerDispute ==
    /\ result = "Ok"
    /\ \E c \in LedgerClients, t \in LedgerTxnIds :
        \E out \in {process(db, num_processed,
                            RawTxnInput("Dispute", c, t, NoAmount))} :
            LedgerCall(out)

LedgerResolve ==
    /\ result = "Ok"
    /\ \E c \in LedgerClients, t \in LedgerTxnIds :
        \E out \in {process(db, num_processed,
                            RawTxnInput("Resolve", c, t, NoAmount))} :
            LedgerCall(out)

LedgerChargeback ==
    /\ result = "Ok"
    /\ \E c \in LedgerClients, t \in LedgerTxnIds :
        \E out \in {process(db, num_processed,
                            RawTxnInput("Chargeback", c, t, NoAmount))} :
            LedgerCall(out)

LedgerNext ==
    \/ LedgerDeposit
    \/ LedgerWithdrawal
    \/ LedgerDispute
    \/ LedgerResolve
    \/ LedgerChargeback

LedgerSpec == Init /\ [][LedgerNext]_vars

\* ------------------------------------------------------------------------
\* Vocabulary of the properties
\* ------------------------------------------------------------------------
\* the records that validate to a deposit or a withdrawal of amount a
DepositOf(c, t, a) == RawTxnInput("Deposit", c, t, SomeAmount(a))
WithdrawalOf(c, t, a) == RawTxnInput("Withdrawal", c, t, SomeAmount(a))
\* the dispute, resolve and chargeback records of (c, t)
DisputeOf(c, t) == RawTxnInput("Dispute", c, t, NoAmount)
ResolveOf(c, t) == RawTxnInput("Resolve", c, t, NoAmount)
ChargebackOf(c, t) == RawTxnInput("Chargeback", c, t, NoAmount)

\* the stored accounts of d are those of db, unchanged (d may hold new accounts)
AccountsUnchanged(d) ==
    \A c \in DOMAIN db.Clients : c \in DOMAIN d.Clients /\ d.Clients[c] = db.Clients[c]

\* some transfer with this transaction id is stored
TxnIdUsed(d, t) == \E b \in d.BalanceTransfers : b.txn_id = t

\* the stored account of c is locked
Locked(d, c) ==
    c \in DOMAIN d.Clients /\ LockedState_from(d.Clients[c].locked) = "Locked"

\* ------------------------------------------------------------------------
\* C1: in every reachable state every stored account has
\* total == available + held (f64 equality of the f64 sum).
\* ------------------------------------------------------------------------
C1_TotalIsAvailablePlusHeld ==
    \A c \in DOMAIN db.Clients :
        feq(db.Clients[c].total, fadd(db.Clients[c].available, db.Clients[c].held))

\* an account with funds held and funds available, written by an applied dispute
C1_Witness ==
    /\ path = "dispute_applied"
    /\ \E c \in DOMAIN db.Clients :
        /\ db.Clients[c].held > 0
        /\ db.Clients[c].available > 0
        /\ db.Clients[c].total = fadd(db.Clients[c].available, db.Clients[c].held)

\* ------------------------------------------------------------------------
\* C2: once an account is locked, no command for that client changes its
\* available, held, total or locked.
\* ------------------------------------------------------------------------
C2_LockedIsFrozen ==
    \A raw \in RawInputs :
        Locked(db, raw.client_id) =>
            \A out \in {process(db, num_processed, raw)} :
                /\ out.result = "Ok"
                /\ out.db.Clients[raw.client_id] = db.Clients[raw.client_id]

\* a command has just been ignored because its account is locked
C2_Witness ==
    /\ path = "locked"
    /\ \E c \in DOMAIN db.Clients :
        /\ Locked(db, c)
        /\ \E t \in TxnIds :
            /\ ~TxnIdUsed(db, t)
            /\ process(db, num_processed, DepositOf(c, t, 2)).path = "locked"

\* ------------------------------------------------------------------------
\* C3: a deposit or withdrawal whose txn_id is already used by a stored
\* transfer (of any client) changes no stored account and stores no transfer.
\* ------------------------------------------------------------------------
C3_DuplicateTransferIsNoOp ==
    \A raw \in RawInputs :
        (raw.txn_type \in {"Deposit", "Withdrawal"} /\ TxnIdUsed(db, raw.txn_id)) =>
            \A out \in {process(db, num_processed, raw)} :
                /\ out.db.BalanceTransfers = db.BalanceTransfers
                /\ AccountsUnchanged(out.db)
                /\ out.num_processed = num_processed

\* a deposit has just been rejected although the funds rule let it pass, and
\* every transaction id is used; another client's resubmission is rejected too
C3_Witness ==
    /\ path = "transfer_rejected"
    /\ \A t \in TxnIds : TxnIdUsed(db, t)
    /\ \E b \in db.BalanceTransfers : \E c \in ClientIds :
        /\ c # b.client_id
        /\ ~Locked(db, c)
        /\ process(db, num_processed, DepositOf(c, b.txn_id, 2)).path = "transfer_rejected"

\* x + y is computed without rounding and without overflow
ExactSum(x, y) ==
    /\ Abs(x) <= MaxFinite
    /\ Abs(y) <= MaxFinite
    /\ Abs(x + y) <= MaxFinite
    /\ Round(x + y) = x + y

\* the f64 operations of a dispute of (c, t) are exact
DisputeExact(c, t) ==
    \A b \in {get_balance_transfer(db, c, t)} :
        /\ ExactSum(db.Clients[c].held, Abs(b.amount))
        /\ (b.amount > 0 => ExactSum(db.Clients[c].available, -b.amount))

\* the f64 sums that give total before and after a dispute of (c, t) are exact
TotalExact(c, t) ==
    \A b \in {get_balance_transfer(db, c, t)} :
        /\ ExactSum(db.Clients[c].available, db.Clients[c].held)
        /\ (b.amount < 0 =>
               ExactSum(db.Clients[c].available, db.Clients[c].held + Abs(b.amount)))

\* ------------------------------------------------------------------------
\* C4 (as claimed): an applied dispute(tx) immediately followed by an applied
\* resolve(tx) leaves available and held equal to their pre-dispute values.
\* ------------------------------------------------------------------------
C4_RoundTripRestores ==
    \A c \in ClientIds, t \in TxnIds :
        \A d \in {process(db, num_processed, DisputeOf(c, t))} :
            d.path = "dispute_applied" =>
                \A r \in {process(d.db, d.num_processed, ResolveOf(c, t))} :
                    r.path = "resolve_applied" =>
                        /\ r.db.Clients[c].available = db.Clients[c].available
                        /\ r.db.Clients[c].held = db.Clients[c].held

\* C4 (amended): an applied dispute(tx) immediately followed by an applied
\* resolve(tx) leaves available and held equal to their pre-dispute values
\* whenever the f64 additions and subtractions of the dispute are exact.
C4_RoundTripRestoresWhenExact ==
    \A c \in ClientIds, t \in TxnIds :
        \A d \in {process(db, num_processed, DisputeOf(c, t))} :
            (d.path = "dispute_applied" /\ DisputeExact(c, t)) =>
                \A r \in {process(d.db, d.num_processed, ResolveOf(c, t))} :
                    r.path = "resolve_applied" =>
                        /\ r.db.Clients[c].available = db.Clients[c].available
                        /\ r.db.Clients[c].held = db.Clients[c].held

\* a client with funds already held whose other deposit is disputed and
\* resolved exactly, the dispute moving funds in between
C4_Witness ==
    \E c \in ClientIds, t \in TxnIds :
        /\ has_balance_transfer(db, c, t)
        /\ db.Clients[c].held > 0
        /\ DisputeExact(c, t)
        /\ \E d \in {process(db, num_processed, DisputeOf(c, t))} :
            /\ d.path = "dispute_applied"
            /\ d.db.Clients[c].available # db.Clients[c].available
            /\ d.db.Clients[c].held # db.Clients[c].held
            /\ process(d.db, d.num_processed, ResolveOf(c, t)).path = "resolve_applied"

\* ------------------------------------------------------------------------
\* C5 (as claimed): during dispute(tx) then resolve(tx) total is unchanged:
\* total after the dispute and total after the resolve equal total before.
\* ------------------------------------------------------------------------
C5_TotalUnchangedThroughout ==
    \A c \in ClientIds, t \in TxnIds :
        \A d \in {process(db, num_processed, DisputeOf(c, t))} :
            d.path = "dispute_applied" =>
                /\ d.db.Clients[c].total = db.Clients[c].total
                /\ \A r \in {process(d.db, d.num_processed, ResolveOf(c, t))} :
                    r.path = "resolve_applied" =>
                        r.db.Clients[c].total = db.Clients[c].total

\* C5 (amended): when the f64 sums involved are exact, a dispute then resolve
\* of a deposit leaves total unchanged throughout; a dispute of a withdrawal
\* of magnitude a raises total by a, and the resolve brings it back.
C5_TotalThroughDisputeWhenExact ==
    \A c \in ClientIds, t \in TxnIds :
        \A d \in {process(db, num_processed, DisputeOf(c, t))} :
            (d.path = "dispute_applied" /\ DisputeExact(c, t) /\ TotalExact(c, t)) =>
                \A b \in {get_balance_transfer(db, c, t)} :
                    /\ b.amount > 0 => d.db.Clients[c].total = db.Clients[c].total
                    /\ b.amount < 0 =>
                           d.db.Clients[c].total = db.Clients[c].total + Abs(b.amount)
                    /\ \A r \in {process(d.db, d.num_processed, ResolveOf(c, t))} :
                        r.path = "resolve_applied" =>
                            r.db.Clients[c].total = db.Clients[c].total

\* a withdrawal whose dispute raises total and whose resolve takes it back
C5_Witness ==
    \E c \in ClientIds, t \in TxnIds :
        /\ has_balance_transfer(db, c, t)
        /\ get_balance_transfer(db, c, t).amount < 0
        /\ DisputeExact(c, t)
        /\ TotalExact(c, t)
        /\ \E d \in {process(db, num_processed, DisputeOf(c, t))} :
            /\ d.path = "dispute_applied"
            /\ d.db.Clients[c].total > db.Clients[c].total
            /\ process(d.db, d.num_processed, ResolveOf(c, t)).path = "resolve_applied"

\* ------------------------------------------------------------------------
\* C6: a withdrawal whose magnitude exceeds the client's available is
\* rejected: no transfer is stored, the account is unchanged (a client seen
\* for the first time gets its empty account).
\* ------------------------------------------------------------------------
C6_OverdraftRejected ==
    \A c \in ClientIds, t \in TxnIds, a \in ValidAmounts :
        \A avail \in {IF c \in DOMAIN db.Clients THEN db.Clients[c].available ELSE 0} :
            flt(avail, a) =>
                \A out \in {process(db, num_processed, WithdrawalOf(c, t, a))} :
                    /\ out.result = "Ok"
                    /\ out.num_processed = num_processed
                    /\ out.db.BalanceTransfers = db.BalanceTransfers
                    /\ AccountsUnchanged(out.db)
                    /\ out.db.Clients[c].available = avail
                    /\ (c \notin DOMAIN db.Clients =>
                           out.db.Clients[c] = ClientRow(ClientState_init(c)))

\* a withdrawal has just been rejected for insufficient funds, and a client
\* with funds asks for more than it has
C6_Witness ==
    /\ path = "insufficient_funds"
    /\ \E c \in DOMAIN db.Clients, t \in TxnIds, a \in ValidAmounts :
        /\ db.Clients[c].available > 0
        /\ flt(db.Clients[c].available, a)
        /\ ~TxnIdUsed(db, t)
        /\ process(db, num_processed, WithdrawalOf(c, t, a)).path = "insufficient_funds"

\* ------------------------------------------------------------------------
\* C7: a dispute, resolve or chargeback that references a transaction id of
\* no stored transfer is ignored: no dispute or resolution record is stored
\* and no stored account changes.
\* ------------------------------------------------------------------------
C7_UnknownTxnIgnored ==
    \A raw \in RawInputs :
        (raw.txn_type \in {"Dispute", "Resolve", "Chargeback"}
            /\ ~TxnIdUsed(db, raw.txn_id)) =>
            \A out \in {process(db, num_processed, raw)} :
                /\ out.result = "Ok"
                /\ out.num_processed = num_processed
                /\ out.db.Disputes = db.Disputes
                /\ out.db.Resolutions = db.Resolutions
                /\ out.db.BalanceTransfers = db.BalanceTransfers
                /\ AccountsUnchanged(out.db)

\* a dispute, a resolve and a chargeback of an unused transaction id are
\* rejected for a client that has funds, the last call being such a rejection
C7_Witness ==
    /\ path \in {"dispute_rejected", "resolve_rejected", "chargeback_rejected"}
    /\ \E c \in DOMAIN db.Clients, t \in TxnIds :
        /\ ~TxnIdUsed(db, t)
        /\ db.Clients[c].available > 0
        /\ process(db, num_processed, DisputeOf(c, t)).path = "dispute_rejected"
        /\ process(db, num_processed, ResolveOf(c, t)).path = "resolve_rejected"
        /\ process(db, num_processed, ChargebackOf(c, t)).path = "chargeback_rejected"

\* ------------------------------------------------------------------------
\* C8: the logical state of a transaction id
\* ------------------------------------------------------------------------
TxnState(d, t) ==
    IF ~TxnIdUsed(d, t) THEN "Unseen"
    ELSE IF \E r \in d.Resolutions :
                r.txn_id = t /\ r.status = DisputeStatus_to_u8("Chargeback")
         THEN "Chargeback"
    ELSE IF \E r \in d.Resolutions :
                r.txn_id = t /\ r.status = DisputeStatus_to_u8("Resolved")
         THEN "Resolved"
    ELSE IF \E x \in d.Disputes : x.txn_id = t THEN "Disputed"
    ELSE "Transferred"

TxnEdges ==
    {<<"Unseen", "Transferred">>, <<"Transferred", "Disputed">>,
     <<"Disputed", "Resolved">>, <<"Disputed", "Chargeback">>}

\* every dispute row belongs to a stored transfer of that client, every
\* resolution row to a dispute row, one resolution per dispute
StoreWellFormed(d) ==
    /\ \A x \in d.Disputes : has_balance_transfer(d, x.client_id, x.txn_id)
    /\ \A r \in d.Resolutions :
        [client_id |-> r.client_id, txn_id |-> r.txn_id] \in d.Disputes
    /\ \A r1, r2 \in d.Resolutions :
        (r1.client_id = r2.client_id /\ r1.txn_id = r2.txn_id) => r1 = r2
    /\ \A b1, b2 \in d.BalanceTransfers : b1.txn_id = b2.txn_id => b1 = b2

\* C8: every transaction id only moves along Unseen -> Transferred ->
\* Disputed -> Resolved or Disputed -> Chargeback; a resolve or chargeback is
\* applied only while the dispute is open; once a transaction is Resolved or
\* Chargeback no dispute, resolve or chargeback for it is applied or changes
\* any balance.
C8_TxnLifecycle ==
    /\ StoreWellFormed(db)
    /\ \A raw \in RawInputs :
        \A out \in {process(db, num_processed, raw)} :
            /\ \A t \in TxnIds :
                \/ TxnState(out.db, t) = TxnState(db, t)
                \/ /\ <<TxnState(db, t), TxnState(out.db, t)>> \in TxnEdges
                   /\ t = raw.txn_id
            /\ (out.db.Resolutions # db.Resolutions
                    \/ out.path \in {"resolve_applied", "chargeback_applied"}) =>
                   TxnState(db, raw.txn_id) = "Disputed"
            /\ (raw.txn_type \in {"Dispute", "Resolve", "Chargeback"}
                    /\ TxnState(db, raw.txn_id) \in {"Resolved", "Chargeback"}) =>
                   /\ out.result = "Ok"
                   /\ out.num_processed = num_processed
                   /\ out.db.Disputes = db.Disputes
                   /\ out.db.Resolutions = db.Resolutions
                   /\ AccountsUnchanged(out.db)

\* a second resolve has just been rejected for a resolved transaction whose
\* owner is not locked; a new dispute and a chargeback of it are rejected too
C8_Witness ==
    /\ path = "resolve_rejected"
    /\ \E b \in db.BalanceTransfers :
        /\ TxnState(db, b.txn_id) = "Resolved"
        /\ ~Locked(db, b.client_id)
        /\ process(db, num_processed, DisputeOf(b.client_id, b.txn_id)).path
               = "dispute_rejected"
        /\ process(db, num_processed, ResolveOf(b.client_id, b.txn_id)).path
               = "resolve_rejected"
        /\ process(db, num_processed, ChargebackOf(b.client_id, b.txn_id)).path
               = "chargeback_rejected"

\* ------------------------------------------------------------------------
\* C9: a dispute record is created at most once per (client_id, txn_id): a
\* second dispute of an already disputed transaction is a no-op that changes
\* neither held nor available.
\* ------------------------------------------------------------------------
C9_SecondDisputeIsNoOp ==
    \A x \in db.Disputes :
        \A out \in {process(db, num_processed, DisputeOf(x.client_id, x.txn_id))} :
            /\ out.result = "Ok"
            /\ out.path \in {"dispute_rejected", "locked"}
            /\ out.num_processed = num_processed
            /\ out.db.Disputes = db.Disputes
            /\ out.db.Clients[x.client_id].held = db.Clients[x.client_id].held
            /\ out.db.Clients[x.client_id].available = db.Clients[x.client_id].available

\* every transaction id is under an open dispute, a dispute has just been
\* rejected, and the owner's second dispute is rejected
C9_Witness ==
    /\ path = "dispute_rejected"
    /\ \A t \in TxnIds : TxnState(db, t) = "Disputed"
    /\ \E x \in db.Disputes :
        /\ db.Clients[x.client_id].held > 0
        /\ process(db, num_processed, DisputeOf(x.client_id, x.txn_id)).path
               = "dispute_rejected"

\* ------------------------------------------------------------------------
\* C10: an applied dispute of a deposit of amount a increases held by a and
\* decreases available by a; an applied dispute of a withdrawal of magnitude
\* a increases held by a and leaves available unchanged (f64 + and -).
\* ------------------------------------------------------------------------
C10_DisputeEffect ==
    \A c \in ClientIds, t \in TxnIds :
        \A out \in {process(db, num_processed, DisputeOf(c, t))} :
            out.path = "dispute_applied" =>
                \A b \in {get_balance_transfer(db, c, t)} :
                    /\ out.db.Clients[c].held = fadd(db.Clients[c].held, Abs(b.amount))
                    /\ b.amount > 0 =>
                           out.db.Clients[c].available
                               = fsub(db.Clients[c].available, b.amount)
                    /\ b.amount < 0 =>
                           out.db.Clients[c].available = db.Clients[c].available

\* a dispute of a withdrawal has just been applied: funds are held, and a
\* deposit of the same client can be disputed next
C10_Witness ==
    /\ path = "dispute_applied"
    /\ \E x \in db.Disputes :
        /\ get_balance_transfer(db, x.client_id, x.txn_id).amount < 0
        /\ db.Clients[x.client_id].held > 0
        /\ \E t \in TxnIds :
            /\ has_balance_transfer(db, x.client_id, t)
            /\ get_balance_transfer(db, x.client_id, t).amount > 0
            /\ process(db, num_processed, DisputeOf(x.client_id, t)).path
                   = "dispute_applied"

\* ------------------------------------------------------------------------
\* C11: an applied resolve of a disputed deposit of amount a decreases held by
\* a and increases available by a; of a disputed withdrawal of magnitude a it
\* decreases held by a and leaves available unchanged (f64 + and -); in every
\* reachable state, whatever was applied since the dispute.
\* ------------------------------------------------------------------------
C11_ResolveEffect ==
    \A c \in ClientIds, t \in TxnIds :
        \A out \in {process(db, num_processed, ResolveOf(c, t))} :
            out.path = "resolve_applied" =>
                \A b \in {get_balance_transfer(db, c, t)} :
                    /\ out.db.Clients[c].held = fsub(db.Clients[c].held, Abs(b.amount))
                    /\ b.amount > 0 =>
                           out.db.Clients[c].available
                               = fadd(db.Clients[c].available, b.amount)
                    /\ b.amount < 0 =>
                           out.db.Clients[c].available = db.Clients[c].available

\* the resolve of a disputed withdrawal has just been applied while a deposit
\* of the same client, disputed before it, is still open and can be resolved
C11_Witness ==
    /\ path = "resolve_applied"
    /\ \E r \in db.Resolutions :
        /\ get_balance_transfer(db, r.client_id, r.txn_id).amount < 0
        /\ \E x \in db.Disputes :
            /\ x.client_id = r.client_id
            /\ get_balance_transfer(db, x.client_id, x.txn_id).amount > 0
            /\ process(db, num_processed, ResolveOf(x.client_id, x.txn_id)).path
                   = "resolve_applied"

\* ------------------------------------------------------------------------
\* C12: an applied chargeback of a disputed deposit of amount a decreases held
\* by a, leaves available as it was after the dispute, so that total drops by
\* a, and locks the account.
\* ------------------------------------------------------------------------
C12_ChargebackDeposit ==
    \A c \in ClientIds, t \in TxnIds :
        \A out \in {process(db, num_processed, ChargebackOf(c, t))} :
            (out.path = "chargeback_applied"
                /\ get_balance_transfer(db, c, t).amount > 0) =>
                \A b \in {get_balance_transfer(db, c, t)} :
                    /\ out.db.Clients[c].held = fsub(db.Clients[c].held, b.amount)
                    /\ out.db.Clients[c].available = db.Clients[c].available
                    /\ out.db.Clients[c].total = fsub(db.Clients[c].total, b.amount)
                    /\ Locked(out.db, c)

\* ------------------------------------------------------------------------
\* C12 (amended): an applied chargeback of a disputed deposit of amount a
\* decreases held by a (f64 -), leaves available as it was after the dispute,
\* locks the account and stores total = available + held; total drops by
\* exactly a whenever the f64 sums that give total before and after are exact.
C12_ChargebackDepositWhenExact ==
    \A c \in ClientIds, t \in TxnIds :
        \A out \in {process(db, num_processed, ChargebackOf(c, t))} :
            (out.path = "chargeback_applied"
                /\ get_balance_transfer(db, c, t).amount > 0) =>
                \A b \in {get_balance_transfer(db, c, t)} :
                    /\ out.db.Clients[c].held = fsub(db.Clients[c].held, b.amount)
                    /\ out.db.Clients[c].available = db.Clients[c].available
                    /\ out.db.Clients[c].total
                           = fadd(db.Clients[c].available, out.db.Clients[c].held)
                    /\ Locked(out.db, c)
                    /\ (/\ ExactSum(db.Clients[c].available, db.Clients[c].held)
                        /\ ExactSum(db.Clients[c].held, -b.amount)
                        /\ ExactSum(db.Clients[c].available,
                                    db.Clients[c].held - b.amount)) =>
                           out.db.Clients[c].total = db.Clients[c].total - b.amount

\* the chargeback of a disputed deposit has just been applied to an account
\* that keeps other funds: it is locked and its total is what is available
C12_Witness ==
    /\ path = "chargeback_applied"
    /\ \E r \in db.Resolutions :
        /\ r.status = DisputeStatus_to_u8("Chargeback")
        /\ get_balance_transfer(db, r.client_id, r.txn_id).amount > 0
        /\ Locked(db, r.client_id)
        /\ db.Clients[r.client_id].held = 0
        /\ db.Clients[r.client_id].available > 0
        /\ db.Clients[r.client_id].total = db.Clients[r.client_id].available

\* ------------------------------------------------------------------------
\* C13: an applied chargeback of a disputed withdrawal of magnitude a
\* decreases held by a, increases available by a, and locks the account.
\* ------------------------------------------------------------------------
C13_ChargebackWithdrawal ==
    \A c \in ClientIds, t \in TxnIds :
        \A out \in {process(db, num_processed, ChargebackOf(c, t))} :
            (out.path = "chargeback_applied"
                /\ get_balance_transfer(db, c, t).amount < 0) =>
                \A b \in {get_balance_transfer(db, c, t)} :
                    /\ out.db.Clients[c].held = fsub(db.Clients[c].held, Abs(b.amount))
                    /\ out.db.Clients[c].available
                           = fadd(db.Clients[c].available, Abs(b.amount))
                    /\ Locked(out.db, c)

\* the chargeback of a disputed withdrawal has just been applied: the account
\* is locked, nothing is held, the withdrawn amount is available again
C13_Witness ==
    /\ path = "chargeback_applied"
    /\ \E r \in db.Resolutions :
        /\ r.status = DisputeStatus_to_u8("Chargeback")
        /\ get_balance_transfer(db, r.client_id, r.txn_id).amount < 0
        /\ Locked(db, r.client_id)
        /\ db.Clients[r.client_id].held = 0
        /\ db.Clients[r.client_id].available > 0

\* ------------------------------------------------------------------------
\* C14: while the run has met no error, an account is locked exactly when a
\* chargeback has been applied to one of that client's disputes: every applied
\* chargeback sets locked, and no deposit, withdrawal, dispute or resolve ever
\* sets it.
\* ------------------------------------------------------------------------
\* a chargeback of one of c's disputes is recorded in d
ChargedBack(d, c) ==
    \E r \in d.Resolutions :
        r.client_id = c /\ r.status = DisputeStatus_to_u8("Chargeback")

C14_LockedIffChargeback ==
    result = "Ok" =>
    /\ \A c \in DOMAIN db.Clients :
        /\ db.Clients[c].locked \in
               {LockedState_to_u8("Locked"), LockedState_to_u8("Unlocked")}
        /\ Locked(db, c) <=> ChargedBack(db, c)
    /\ \A raw \in RawInputs :
        \A out \in {process(db, num_processed, raw)} :
            /\ out.path = "chargeback_applied" => Locked(out.db, raw.client_id)
            /\ (ChargedBack(out.db, raw.client_id) /\ ~ChargedBack(db, raw.client_id))
                   => Locked(out.db, raw.client_id)
            /\ raw.txn_type # "Chargeback" =>
                   \A c \in DOMAIN out.db.Clients :
                       Locked(out.db, c) => Locked(db, c)

\* a chargeback has just locked one client while another client, with an
\* applied deposit, an open dispute and no chargeback, is not locked
C14_Witness ==
    /\ path = "chargeback_applied"
    /\ \E c1, c2 \in DOMAIN db.Clients :
        /\ Locked(db, c1)
        /\ ChargedBack(db, c1)
        /\ ~Locked(db, c2)
        /\ \E x \in db.Disputes : x.client_id = c2

\* ------------------------------------------------------------------------
\* C15 (as claimed): after an applied dispute and an applied chargeback of a
\* withdrawal the client's available equals its value immediately before the
\* dispute (it is not raised by the withdrawn amount).
\* ------------------------------------------------------------------------
C15_ChargebackKeepsWithdrawal ==
    \A c \in ClientIds, t \in TxnIds :
        \A d \in {process(db, num_processed, DisputeOf(c, t))} :
            (d.path = "dispute_applied"
                /\ get_balance_transfer(db, c, t).amount < 0) =>
                \A k \in {process(d.db, d.num_processed, ChargebackOf(c, t))} :
                    k.path = "chargeback_applied" =>
                        k.db.Clients[c].available = db.Clients[c].available

\* C15 (amended): after an applied dispute and an applied chargeback of a
\* withdrawal of magnitude a the client's available is its value immediately
\* before the dispute plus a (f64 +): the withdrawn funds are returned.
C15_ChargebackReturnsWithdrawal ==
    \A c \in ClientIds, t \in TxnIds :
        \A d \in {process(db, num_processed, DisputeOf(c, t))} :
            (d.path = "dispute_applied"
                /\ get_balance_transfer(db, c, t).amount < 0) =>
                \A k \in {process(d.db, d.num_processed, ChargebackOf(c, t))} :
                    k.path = "chargeback_applied" =>
                        \A b \in {get_balance_transfer(db, c, t)} :
                            k.db.Clients[c].available
                                = fadd(db.Clients[c].available, Abs(b.amount))

\* a withdrawal has been applied and nothing is held; its dispute and then
\* its chargeback are both applied and raise available by the withdrawn amount
C15_Witness ==
    \E b \in db.BalanceTransfers :
        /\ b.amount < 0
        /\ db.Clients[b.client_id].held = 0
        /\ \E d \in {process(db, num_processed, DisputeOf(b.client_id, b.txn_id))} :
            /\ d.path = "dispute_applied"
            /\ \E k \in {process(d.db, d.num_processed,
                                 ChargebackOf(b.client_id, b.txn_id))} :
                /\ k.path = "chargeback_applied"
                /\ k.db.Clients[b.client_id].available
                       = db.Clients[b.client_id].available + Abs(b.amount)

\* ------------------------------------------------------------------------
\* C16: validate_raw_input yields a transfer command for a deposit or
\* withdrawal iff the amount is present and strictly greater than zero (the
\* deposit carrying the amount, the withdrawal the negated amount), yields the
\* command of a dispute, resolve or chargeback iff the amount is absent, and
\* yields None for every other record; process drops exactly the records for
\* which it yields None.
\* ------------------------------------------------------------------------
\* the amount column is present and holds a number strictly greater than zero
PositiveAmount(amt) == amt.some /\ amt.val # NAN /\ amt.val > 0

C16_ValidatorContract ==
    \A raw \in RawInputs :
        \A txn \in {validate_raw_input(raw)} :
            /\ txn.kind = "None" <=>
                   process(db, num_processed, raw).path = "dropped"
            /\ raw.txn_type \in {"Deposit", "Withdrawal"} =>
                /\ txn.kind \in {"BalanceTransfer", "None"}
                /\ txn.kind = "BalanceTransfer" <=> PositiveAmount(raw.amount)
                /\ txn.kind = "BalanceTransfer" =>
                    /\ txn.client_id = raw.client_id
                    /\ txn.txn_id = raw.txn_id
                    /\ txn.amount = IF raw.txn_type = "Deposit"
                                    THEN raw.amount.val
                                    ELSE -raw.amount.val
            /\ raw.txn_type \in {"Dispute", "Resolve", "Chargeback"} =>
                /\ txn.kind \in {raw.txn_type, "None"}
                /\ txn.kind = raw.txn_type <=> ~raw.amount.some
                /\ txn.kind = raw.txn_type =>
                    txn.client_id = raw.client_id /\ txn.txn_id = raw.txn_id
            /\ raw.txn_type = "Invalid" => txn.kind = "None"

\* ------------------------------------------------------------------------
\* C17: a record dropped by the validator changes nothing: process returns
\* Ok, no account is created, no transfer, dispute or resolution record is
\* stored, no balance changes and num_processed is unchanged.
\* ------------------------------------------------------------------------
C17_DroppedRecordIsNoOp ==
    \A raw \in RawInputs :
        validate_raw_input(raw).kind = "None" =>
            \A out \in {process(db, num_processed, raw)} :
                /\ out.result = "Ok"
                /\ out.path = "dropped"
                /\ DOMAIN out.db.Clients = DOMAIN db.Clients
                /\ out.db = db
                /\ out.num_processed = num_processed

\* a record has just been dropped; one client has funds, the other client has
\* no account, and its deposit without an amount, its deposit of a negative
\* amount and its dispute with an amount leave it without one
C17_Witness ==
    /\ path = "dropped"
    /\ \E c1, c2 \in ClientIds : \E t \in TxnIds :
        /\ c1 \in DOMAIN db.Clients
        /\ db.Clients[c1].available > 0
        /\ c2 \notin DOMAIN db.Clients
        /\ ~TxnIdUsed(db, t)
        /\ process(db, num_processed,
                   RawTxnInput("Deposit", c2, t, NoAmount)).db = db
        /\ process(db, num_processed,
                   RawTxnInput("Deposit", c2, t, SomeAmount(-2))).db = db
        /\ process(db, num_processed,
                   RawTxnInput("Dispute", c2, t, SomeAmount(1))).db = db

\* ------------------------------------------------------------------------
\* C18: an account is created exactly once per client, on the first validated
\* command that names a client id not yet in the store, with available = held
\* = total = 0 and unlocked; it is created even when that command is then
\* rejected by a business rule, and it is never deleted.
\* ------------------------------------------------------------------------
\* the row of an account that has just been created
NewAccountRow(c) ==
    [client_id |-> c, available |-> 0, held |-> 0, total |-> 0,
     locked |-> LockedState_to_u8("Unlocked")]

RejectedPaths ==
    {"insufficient_funds", "transfer_rejected", "dispute_rejected",
     "resolve_rejected", "chargeback_rejected"}

C18_AccountCreatedOnce ==
    /\ \A c \in DOMAIN db.Clients : db.Clients[c].client_id = c
    /\ \A raw \in RawInputs :
        \A out \in {process(db, num_processed, raw)} :
            \* never deleted, and no account but the named client's is created
            /\ DOMAIN db.Clients \subseteq DOMAIN out.db.Clients
            /\ DOMAIN out.db.Clients \subseteq DOMAIN db.Clients \cup {raw.client_id}
            \* created on the first validated command, also when it is rejected
            /\ (validate_raw_input(raw).kind # "None"
                    /\ raw.client_id \notin DOMAIN db.Clients) =>
                /\ raw.client_id \in DOMAIN out.db.Clients
                /\ create_client_state(db, raw.client_id).ok
                /\ create_client_state(db, raw.client_id).db.Clients[raw.client_id]
                       = NewAccountRow(raw.client_id)
                /\ out.path \in RejectedPaths =>
                       out.db.Clients[raw.client_id] = NewAccountRow(raw.client_id)
                /\ out.path \notin {"locked", "dropped"}
            \* not created by a dropped record, not created twice
            /\ validate_raw_input(raw).kind = "None" =>
                   DOMAIN out.db.Clients = DOMAIN db.Clients
            /\ raw.client_id \in DOMAIN db.Clients =>
                /\ DOMAIN out.db.Clients = DOMAIN db.Clients
                /\ ~create_client_state(db, raw.client_id).ok

\* a first command of a client has just been rejected: the client has no
\* transfer, its account is stored with zero balances and unlocked, next to
\* the account of a client with funds
C18_Witness ==
    /\ path \in RejectedPaths
    /\ \E c1, c2 \in DOMAIN db.Clients :
        /\ db.Clients[c1] = NewAccountRow(c1)
        /\ db.Clients[c2].available > 0
        /\ \A b \in db.BalanceTransfers : b.client_id = c2
        /\ db.Disputes = {}

\* ------------------------------------------------------------------------
\* C19 (the part about rejections): every business-rule rejection (duplicate
\* transaction id, insufficient withdrawal funds, dispute, resolve or
\* chargeback on an unknown or already finalized transaction, any command on
\* a locked account) makes process return Ok.
\* ------------------------------------------------------------------------
\* the record is refused by a business rule in the store d
BusinessRejection(d, raw) ==
    /\ validate_raw_input(raw).kind # "None"
    /\ \/ Locked(d, raw.client_id)
       \/ /\ raw.txn_type \in {"Deposit", "Withdrawal"}
          /\ TxnIdUsed(d, raw.txn_id)
       \/ /\ raw.txn_type = "Withdrawal"
          /\ raw.amount.val # NAN
          /\ raw.amount.val >
                 (IF raw.client_id \in DOMAIN d.Clients
                  THEN d.Clients[raw.client_id].available ELSE 0)
       \/ /\ raw.txn_type \in {"Dispute", "Resolve", "Chargeback"}
          /\ \/ TxnState(d, raw.txn_id) \in {"Unseen", "Resolved", "Chargeback"}
             \/ ~has_balance_transfer(d, raw.client_id, raw.txn_id)

C19_RejectionsReturnOk ==
    \A raw \in RawInputs :
        BusinessRejection(db, raw) =>
            \A out \in {process(db, num_processed, raw)} :
                /\ out.result = "Ok"
                /\ out.path \in RejectedPaths \cup {"locked"}
                /\ out.num_processed = num_processed

\* C19 (as claimed): every business-rule rejection makes process return Ok,
\* and only storage faults and invariant violations make process return an
\* error.  The store of the model meets no input or output fault, so the only
\* error left to process is the invariant violation.
C19_OnlyFaultsAreErrors ==
    /\ C19_RejectionsReturnOk
    /\ \A raw \in RawInputs :
        \A out \in {process(db, num_processed, raw)} :
            out.result = "Err" => out.path = "invariant_violation"

\* ------------------------------------------------------------------------
\* C20: try_insert_balance_transfer returns true and stores the transfer
\* exactly when the client account exists and no transfer with that txn_id is
\* stored for any client; otherwise it returns false and leaves the store
\* unchanged.
\* ------------------------------------------------------------------------
\* the transfers try_insert_balance_transfer may be called with
BalanceTransferArgs ==
    {Txn("BalanceTransfer", c, t, a) :
        c \in ClientIds, t \in TxnIds, a \in ValidAmounts \cup {-2, -INF, NAN}}

\* the store d with the row of transfer txn added
WithTransfer(d, txn) ==
    [d EXCEPT !.BalanceTransfers = @ \cup
        {[client_id |-> txn.client_id, txn_id |-> txn.txn_id, amount |-> txn.amount]}]

C20_InsertTransferContract ==
    \A txn \in BalanceTransferArgs :
        \A ins \in {try_insert_balance_transfer(db, txn)} :
            /\ ins.res <=> (txn.client_id \in DOMAIN db.Clients
                              /\ ~TxnIdUsed(db, txn.txn_id))
            /\ ins.db = IF ins.res THEN WithTransfer(db, txn) ELSE db

\* C20 (amended): try_insert_balance_transfer returns true and stores the
\* transfer exactly when the client account exists, no transfer with that
\* txn_id is stored for any client and the amount is not NaN; otherwise it
\* returns false and leaves the store unchanged.
C20_InsertTransferContractNoNaN ==
    \A txn \in BalanceTransferArgs :
        \A ins \in {try_insert_balance_transfer(db, txn)} :
            /\ ins.res <=> (/\ txn.client_id \in DOMAIN db.Clients
                            /\ ~TxnIdUsed(db, txn.txn_id)
                            /\ txn.amount # NAN)
            /\ ins.db = IF ins.res THEN WithTransfer(db, txn) ELSE db

\* a store where the insert is refused for a client without an account, for
\* a used txn_id under another client and for a NaN amount, and is accepted
\* for a free txn_id of a client with an account
C20_Witness ==
    \E c1, c2 \in ClientIds : \E t1, t2 \in TxnIds :
        /\ c1 \in DOMAIN db.Clients
        /\ c2 \notin DOMAIN db.Clients
        /\ has_balance_transfer(db, c1, t1)
        /\ ~TxnIdUsed(db, t2)
        /\ ~try_insert_balance_transfer(db, Txn("BalanceTransfer", c2, t2, 2)).res
        /\ ~try_insert_balance_transfer(db, Txn("BalanceTransfer", c1, t1, 2)).res
        /\ ~try_insert_balance_transfer(db, Txn("BalanceTransfer", c1, t2, NAN)).res
        /\ try_insert_balance_transfer(db, Txn("BalanceTransfer", c1, t2, -2)).res

\* ------------------------------------------------------------------------
\* C21: when processing aborts with a fatal error the executable ends with a
\* non-zero exit code; it ends with exit code 0 only when the whole run
\* succeeded.
\* ------------------------------------------------------------------------
C21_FatalErrorExitsNonZero ==
    exe.pc = "exited" =>
        /\ exe.run = "Err" => exe.exit_code # ExitCode_SUCCESS
        /\ exe.exit_code = ExitCode_SUCCESS => exe.run = "Ok"

\* ------------------------------------------------------------------------
\* C22: after a run of the executable completes, its output holds the header
\* line followed by exactly one line per client named by a validated command,
\* showing that account's final available, held, total and locked.
\* ------------------------------------------------------------------------
C22_OutputListsAccounts ==
    (exe.pc = "exited" /\ exe.run = "Ok") =>
        /\ exe.printed
        /\ \A l1, l2 \in exe.lines : l1.client = l2.client => l1 = l2
        /\ validate_raw_input(exe.record).kind # "None" =>
               \E l \in exe.lines : l.client = exe.record.client_id

\* ------------------------------------------------------------------------
\* C23: on every exit path of a run that reached the store, including a
\* failure while the store is opened or initialised, the store's backing file
\* is deleted.
\* ------------------------------------------------------------------------
C23_StoreFileDeleted ==
    (exe.pc = "exited" /\ exe.run # "none") => exe.file = "absent"

\* ------------------------------------------------------------------------
\* C24: a deposit with an unused transaction id on an unlocked account is
\* always applied and raises available by its amount (f64 +), also when
\* available is negative; the insufficient-funds rule never rejects a deposit.
\* ------------------------------------------------------------------------
\* a transaction id that no run of the state machine uses
FreshTxnId == NumTxns + 1
\* the transaction ids a record may carry
AnyTxnIds == TxnIds \cup {FreshTxnId}

\* available of client c in d, 0 when the account is still to be created
AvailableOf(d, c) == IF c \in DOMAIN d.Clients THEN d.Clients[c].available ELSE 0

C24_DepositAlwaysApplied ==
    \A c \in ClientIds, t \in AnyTxnIds, a \in ValidAmounts :
        (~TxnIdUsed(db, t) /\ ~Locked(db, c)) =>
            \A out \in {process(db, num_processed, DepositOf(c, t, a))} :
                /\ out.result = "Ok"
                /\ out.path = "transfer_applied"
                /\ out.num_processed = num_processed + 1
                /\ has_balance_transfer(out.db, c, t)
                /\ out.db.Clients[c].available = fadd(AvailableOf(db, c), a)

\* a dispute has just left an unlocked account with a negative available, and
\* a deposit with an unused transaction id is applied to it
C24_Witness ==
    /\ path = "dispute_applied"
    /\ \E c \in DOMAIN db.Clients :
        /\ db.Clients[c].available < 0
        /\ ~Locked(db, c)
        /\ \E out \in {process(db, num_processed, DepositOf(c, FreshTxnId, 2))} :
            /\ out.path = "transfer_applied"
            /\ out.db.Clients[c].available = db.Clients[c].available + 2

\* ------------------------------------------------------------------------
\* C25: a withdrawal with an unused transaction id on an unlocked account is
\* applied whenever its magnitude is less than or equal to available
\* (equality included, leaving available = 0), and immediately after any
\* applied withdrawal the client's available is >= 0.
\* ------------------------------------------------------------------------
C25_WithdrawalUpToAvailable ==
    \A c \in ClientIds, t \in AnyTxnIds, a \in ValidAmounts :
        \A out \in {process(db, num_processed, WithdrawalOf(c, t, a))} :
            /\ (~TxnIdUsed(db, t) /\ ~Locked(db, c) /\ a <= AvailableOf(db, c)) =>
                /\ out.result = "Ok"
                /\ out.path = "transfer_applied"
                /\ out.db.Clients[c].available = fsub(AvailableOf(db, c), a)
                /\ a = AvailableOf(db, c) => out.db.Clients[c].available = 0
            /\ out.path = "transfer_applied" => out.db.Clients[c].available >= 0

\* what holds of C25: the same statement for every withdrawal except that of
\* an infinite amount from an infinite available, whose balance is NaN
C25_WithdrawalUpToAvailableNumber ==
    \A c \in ClientIds, t \in AnyTxnIds, a \in ValidAmounts :
        \A out \in {process(db, num_processed, WithdrawalOf(c, t, a))} :
            /\ (/\ ~TxnIdUsed(db, t)
                /\ ~Locked(db, c)
                /\ a <= AvailableOf(db, c)
                /\ ~(a = INF /\ AvailableOf(db, c) = INF)) =>
                /\ out.result = "Ok"
                /\ out.path = "transfer_applied"
                /\ out.db.Clients[c].available = fsub(AvailableOf(db, c), a)
                /\ a = AvailableOf(db, c) => out.db.Clients[c].available = 0
            /\ out.path = "transfer_applied" => out.db.Clients[c].available >= 0

\* a withdrawal of the whole available amount has just been applied
C25_Witness ==
    /\ path = "transfer_applied"
    /\ \E c \in DOMAIN db.Clients, t \in db.BalanceTransfers :
        /\ t.client_id = c
        /\ t.amount < 0
        /\ db.Clients[c].available = 0

\* ------------------------------------------------------------------------
\* C26 (as claimed): a dispute of a deposit is never rejected for lack of
\* funds: it is applied even when the deposited funds were already withdrawn,
\* in which case available becomes negative (previous available - amount)
\* while total is unchanged; a following chargeback leaves available and total
\* negative.
\* ------------------------------------------------------------------------
\* the stored deposits of an unlocked account that no dispute refers to yet
DisputableDeposits(d) ==
    {b \in d.BalanceTransfers :
        /\ b.amount > 0
        /\ TxnState(d, b.txn_id) = "Transferred"
        /\ ~Locked(d, b.client_id)}

C26_DisputeOverdraws ==
    \A b \in DisputableDeposits(db) :
        \A out \in {process(db, num_processed, DisputeOf(b.client_id, b.txn_id))} :
            /\ out.path \notin {"dispute_rejected", "insufficient_funds"}
            /\ db.Clients[b.client_id].available < b.amount =>
                /\ out.path = "dispute_applied"
                /\ out.db.Clients[b.client_id].available =
                       fsub(db.Clients[b.client_id].available, b.amount)
                /\ out.db.Clients[b.client_id].available < 0
                /\ out.db.Clients[b.client_id].total = db.Clients[b.client_id].total
                /\ \A cb \in {process(out.db, out.num_processed,
                                      ChargebackOf(b.client_id, b.txn_id))} :
                    /\ cb.path = "chargeback_applied"
                    /\ cb.db.Clients[b.client_id].available < 0
                    /\ cb.db.Clients[b.client_id].total < 0

\* C26 (amended): a dispute of a deposit is never rejected for lack of funds;
\* when available is less than the deposit it is applied and available becomes
\* previous available - amount, a negative value, while total stays the same
\* when the f64 sums involved are exact. A following chargeback is applied,
\* leaves available at that negative value and stores total = available +
\* held, which is negative when the client held nothing before the dispute.
C26_DisputeOverdrawsTotalFollowsHeld ==
    \A b \in DisputableDeposits(db) :
        \A out \in {process(db, num_processed, DisputeOf(b.client_id, b.txn_id))} :
            /\ out.path \notin {"dispute_rejected", "insufficient_funds"}
            /\ db.Clients[b.client_id].available < b.amount =>
                /\ out.path = "dispute_applied"
                /\ out.db.Clients[b.client_id].available =
                       fsub(db.Clients[b.client_id].available, b.amount)
                /\ out.db.Clients[b.client_id].available < 0
                /\ (DisputeExact(b.client_id, b.txn_id) /\ TotalExact(b.client_id, b.txn_id)) =>
                       out.db.Clients[b.client_id].total = db.Clients[b.client_id].total
                /\ \A cb \in {process(out.db, out.num_processed,
                                      ChargebackOf(b.client_id, b.txn_id))} :
                    /\ cb.path = "chargeback_applied"
                    /\ cb.db.Clients[b.client_id].available =
                           out.db.Clients[b.client_id].available
                    /\ cb.db.Clients[b.client_id].total =
                           fadd(cb.db.Clients[b.client_id].available,
                                cb.db.Clients[b.client_id].held)
                    /\ db.Clients[b.client_id].held = 0 =>
                           cb.db.Clients[b.client_id].total < 0

\* a deposit whose funds were withdrawn is disputed: available goes negative,
\* total stays, and the chargeback leaves available and total negative
C26_Witness ==
    \E b \in DisputableDeposits(db) :
        /\ path = "transfer_applied"
        /\ db.Clients[b.client_id].available < b.amount
        /\ db.Clients[b.client_id].held = 0
        /\ \E out \in {process(db, num_processed, DisputeOf(b.client_id, b.txn_id))} :
            /\ out.path = "dispute_applied"
            /\ out.db.Clients[b.client_id].available < 0
            /\ out.db.Clients[b.client_id].total = db.Clients[b.client_id].total
            /\ \E cb \in {process(out.db, out.num_processed,
                                  ChargebackOf(b.client_id, b.txn_id))} :
                /\ cb.path = "chargeback_applied"
                /\ cb.db.Clients[b.client_id].total < 0

\* a client with other funds held whose overdrawn deposit is charged back:
\* total is not negative afterwards
C26_TotalNotNegative ==
    \E b \in DisputableDeposits(db) :
        /\ db.Clients[b.client_id].available < b.amount
        /\ DisputeExact(b.client_id, b.txn_id)
        /\ TotalExact(b.client_id, b.txn_id)
        /\ \E out \in {process(db, num_processed, DisputeOf(b.client_id, b.txn_id))} :
            /\ out.path = "dispute_applied"
            /\ ExactSum(out.db.Clients[b.client_id].held, -b.amount)
            /\ \E cb \in {process(out.db, out.num_processed,
                                  ChargebackOf(b.client_id, b.txn_id))} :
                /\ cb.path = "chargeback_applied"
                /\ cb.db.Clients[b.client_id].total >= 0

\* ------------------------------------------------------------------------
\* C27: a dispute, resolve or chargeback whose client id differs from the
\* client id of the referenced transfer is ignored: it stores no dispute or
\* resolution record and changes no balance of the issuing client or of the
\* transfer's owner, and the transfer stays disputable by its owner.
\* ------------------------------------------------------------------------
\* the dispute, resolve and chargeback records that refer to transfer b under
\* the client id of somebody else
ForeignCommands(b) ==
    {raw \in RawInputs :
        /\ raw.txn_type \in {"Dispute", "Resolve", "Chargeback"}
        /\ raw.txn_id = b.txn_id
        /\ raw.client_id # b.client_id}

C27_ForeignClientIgnored ==
    \A b \in db.BalanceTransfers :
        \A raw \in ForeignCommands(b) :
            \A out \in {process(db, num_processed, raw)} :
                /\ out.result = "Ok"
                /\ out.num_processed = num_processed
                /\ out.db.Disputes = db.Disputes
                /\ out.db.Resolutions = db.Resolutions
                /\ out.db.BalanceTransfers = db.BalanceTransfers
                /\ AccountsUnchanged(out.db)
                /\ (raw.client_id \notin DOMAIN db.Clients
                        /\ raw.client_id \in DOMAIN out.db.Clients) =>
                       out.db.Clients[raw.client_id] = NewAccountRow(raw.client_id)
                /\ \A ty \in {"Dispute", "Resolve", "Chargeback"} :
                    \A own \in {RawTxnInput(ty, b.client_id, b.txn_id, NoAmount)} :
                        process(out.db, out.num_processed, own).path =
                            process(db, num_processed, own).path

\* every transaction id is used and undisputed, no account is locked, and a
\* dispute has just been rejected: it named a transfer of the other client,
\* whose owner can still dispute it
C27_Witness ==
    /\ path = "dispute_rejected"
    /\ \A t \in TxnIds : TxnState(db, t) = "Transferred"
    /\ \A c \in ClientIds : c \in DOMAIN db.Clients /\ ~Locked(db, c)
    /\ \E b \in db.BalanceTransfers :
        /\ b.amount > 0
        /\ \E raw \in ForeignCommands(b) :
            /\ db.Clients[raw.client_id].available > 0
            /\ process(db, num_processed, raw).path = "dispute_rejected"
        /\ process(db, num_processed, DisputeOf(b.client_id, b.txn_id)).path =
               "dispute_applied"

\* ------------------------------------------------------------------------
\* C28: the locked check precedes every other rule: a command for a locked
\* account writes no store record at all, so the transaction id of a deposit
\* ignored because of the lock stays unused (a later transfer of another
\* client with that id is applied) and an open dispute of the locked client is
\* not resolved or charged back.
\* ------------------------------------------------------------------------
\* every record of the input alphabet, and the transfers that carry a
\* transaction id no earlier record used
RawInputsAnyTxn ==
    RawInputs \cup
    {RawTxnInput(ty, c, FreshTxnId, amt) :
        ty \in {"Deposit", "Withdrawal"}, c \in ClientIds, amt \in TransferAmounts}

C28_LockedWritesNothing ==
    \A raw \in RawInputsAnyTxn :
        Locked(db, raw.client_id) =>
            \A out \in {process(db, num_processed, raw)} :
                /\ out.result = "Ok"
                /\ out.path \in {"locked", "dropped"}
                /\ out.num_processed = num_processed
                /\ out.db = db
                /\ (raw.txn_type = "Deposit" /\ ~TxnIdUsed(db, raw.txn_id)) =>
                    \A c2 \in ClientIds \ {raw.client_id}, a \in ValidAmounts :
                        ~Locked(db, c2) =>
                            process(out.db, out.num_processed,
                                    DepositOf(c2, raw.txn_id, a)).path = "transfer_applied"
                /\ (raw.txn_type \in {"Resolve", "Chargeback"}
                        /\ TxnState(db, raw.txn_id) = "Disputed") =>
                       TxnState(out.db, raw.txn_id) = "Disputed"

\* a command of a locked client has just been ignored; the client has an open
\* dispute that a resolve and a chargeback leave open, and a deposit of theirs
\* leaves its transaction id free for a deposit of the other client
C28_Witness ==
    /\ path = "locked"
    /\ \E c \in DOMAIN db.Clients, x \in db.Disputes :
        /\ Locked(db, c)
        /\ x.client_id = c
        /\ TxnState(db, x.txn_id) = "Disputed"
        /\ process(db, num_processed, ResolveOf(c, x.txn_id)).path = "locked"
        /\ process(db, num_processed, ChargebackOf(c, x.txn_id)).path = "locked"
        /\ \E out \in {process(db, num_processed, DepositOf(c, FreshTxnId, 2))} :
            /\ out.path = "locked"
            /\ \E c2 \in ClientIds \ {c} :
                process(out.db, out.num_processed,
                        DepositOf(c2, FreshTxnId, 2)).path = "transfer_applied"

\* ------------------------------------------------------------------------
\* C29: the store's dispute representation (a Disputes row meaning the dispute
\* exists, a Resolutions row holding its terminal status) behaves like one
\* status per (client_id, txn_id) with insert-if-absent and compare-and-set
\* Open->Resolved / Open->Chargeback: for every sequence of
\* try_insert_dispute, try_resolve_dispute and try_chargeback_dispute calls
\* the boolean results of the two models are equal.
\* ------------------------------------------------------------------------
\* the status the two tables of store d hold for (c, t)
StatusInTables(d, c, t) ==
    IF \E r \in d.Resolutions : r.client_id = c /\ r.txn_id = t
    THEN IF (CHOOSE r \in d.Resolutions : r.client_id = c /\ r.txn_id = t).status
                = DisputeStatus_to_u8("Resolved")
         THEN "Resolved"
         ELSE "Chargeback"
    ELSE IF [client_id |-> c, txn_id |-> t] \in d.Disputes THEN "Open"
    ELSE "None"

C29_SameResults ==
    /\ dispute_model.store_res = dispute_model.model_res
    /\ \A c \in ClientIds, t \in TxnIds :
        dispute_model.status[<<c, t>>] = StatusInTables(db, c, t)

\* a resolve has just been refused by both models because the dispute was
\* charged back, while another dispute of the same client is resolved
C29_Witness ==
    /\ dispute_model.call = "try_resolve_dispute"
    /\ ~dispute_model.store_res
    /\ ~dispute_model.model_res
    /\ dispute_model.status[<<dispute_model.client_id, dispute_model.txn_id>>] = "Chargeback"
    /\ \E t \in TxnIds :
        dispute_model.status[<<dispute_model.client_id, t>>] = "Resolved"

\* ------------------------------------------------------------------------
\* C30: num_processed counts exactly the applied commands: it rises by one for
\* each applied transfer, dispute, resolve and chargeback and by nothing for a
\* dropped or rejected record, so it always equals the number of stored
\* transfers plus stored disputes plus stored resolutions.
\* ------------------------------------------------------------------------
AppliedPaths ==
    {"transfer_applied", "dispute_applied", "resolve_applied", "chargeback_applied"}

StoredRecords(d) ==
    Cardinality(d.BalanceTransfers) + Cardinality(d.Disputes) + Cardinality(d.Resolutions)

C30_CountsApplied ==
    /\ num_processed = StoredRecords(db)
    /\ \A raw \in RawInputsAnyTxn :
        \A out \in {process(db, num_processed, raw)} :
            /\ out.num_processed = StoredRecords(out.db)
            /\ out.path \in AppliedPaths =>
                /\ out.num_processed = num_processed + 1
                /\ StoredRecords(out.db) = StoredRecords(db) + 1
            /\ out.path \in RejectedPaths \cup {"dropped", "locked"} =>
                /\ out.num_processed = num_processed
                /\ StoredRecords(out.db) = StoredRecords(db)

\* a record has just been rejected after a transfer, a dispute and a
\* resolution were applied and counted
C30_Witness ==
    /\ result = "Ok"
    /\ path \in RejectedPaths
    /\ db.BalanceTransfers # {}
    /\ db.Disputes # {}
    /\ db.Resolutions # {}
    /\ num_processed = StoredRecords(db)
    /\ num_processed >= 4

\* ------------------------------------------------------------------------
\* C31: absent storage faults the InvariantViolation branches are unreachable:
\* whenever try_insert_dispute, try_resolve_dispute or try_chargeback_dispute
\* returns true for (client_id, txn_id), get_balance_transfer(client_id,
\* txn_id) finds the transfer.
\* ------------------------------------------------------------------------
C31_NoInvariantViolation ==
    /\ path # "invariant_violation"
    /\ \A raw \in RawInputsAnyTxn :
        process(db, num_processed, raw).path # "invariant_violation"
    /\ \A c \in ClientIds, t \in AnyTxnIds :
        /\ \A ins \in {try_insert_dispute(db, c, t)} :
            ins.res => has_balance_transfer(ins.db, c, t)
        /\ \A ins \in {try_resolve_dispute(db, c, t)} :
            ins.res => has_balance_transfer(ins.db, c, t)
        /\ \A ins \in {try_chargeback_dispute(db, c, t)} :
            ins.res => has_balance_transfer(ins.db, c, t)

\* a chargeback has just been applied to a dispute whose transfer was found,
\* and a dispute insert that returns true finds its transfer
C31_Witness ==
    /\ path = "chargeback_applied"
    /\ \E r \in db.Resolutions :
        /\ r.status = DisputeStatus_to_u8("Chargeback")
        /\ has_balance_transfer(db, r.client_id, r.txn_id)
    /\ \E c \in ClientIds, t \in TxnIds :
        \E ins \in {try_insert_dispute(db, c, t)} :
            ins.res /\ has_balance_transfer(ins.db, c, t)

\* ------------------------------------------------------------------------
\* C32: a command naming client c never changes the stored account
\* (available, held, total, locked) of any client other than c, whatever
\* transaction id it references.
\* ------------------------------------------------------------------------
C32_OtherAccountsUntouched ==
    \A raw \in RawInputsAnyTxn :
        \A out \in {process(db, num_processed, raw)} :
            \A c2 \in DOMAIN db.Clients \ {raw.client_id} :
                /\ c2 \in DOMAIN out.db.Clients
                /\ out.db.Clients[c2] = db.Clients[c2]

\* two clients with funds; a dispute by one of them of its own deposit changes
\* its account, and its commands that name the other's transfer change nothing
C32_Witness ==
    \E b1, b2 \in db.BalanceTransfers :
        /\ b1.client_id # b2.client_id
        /\ db.Clients[b1.client_id].available > 0
        /\ db.Clients[b2.client_id].available > 0
        /\ \E out \in {process(db, num_processed, DisputeOf(b1.client_id, b1.txn_id))} :
            /\ out.path = "dispute_applied"
            /\ out.db.Clients[b1.client_id] # db.Clients[b1.client_id]
            /\ out.db.Clients[b2.client_id] = db.Clients[b2.client_id]
        /\ \E out \in {process(db, num_processed, DisputeOf(b1.client_id, b2.txn_id))} :
            /\ out.path = "dispute_rejected"
            /\ out.db.Clients[b2.client_id] = db.Clients[b2.client_id]

\* ------------------------------------------------------------------------
\* C33 (as claimed): in every reachable state, each client's held equals the
\* sum of the magnitudes of that client's transfers whose dispute is open
\* (disputed and neither resolved nor charged back); in particular held is
\* never negative.
\* ------------------------------------------------------------------------
RECURSIVE SumOfMagnitudes(_)
SumOfMagnitudes(bs) ==
    IF bs = {} THEN 0
    ELSE LET b == CHOOSE x \in bs : TRUE
         IN  Abs(b.amount) + SumOfMagnitudes(bs \ {b})

\* the transfers of client c whose dispute is open in store d
OpenTransfers(d, c) ==
    {b \in d.BalanceTransfers :
        b.client_id = c /\ TxnState(d, b.txn_id) = "Disputed"}

OpenSum(d, c) == SumOfMagnitudes(OpenTransfers(d, c))

C33_HeldIsOpenSum ==
    result = "Ok" =>
        \A c \in DOMAIN db.Clients :
            /\ db.Clients[c].held = OpenSum(db, c)
            /\ db.Clients[c].held >= 0

\* the f64 operation that the record raw performs on held is exact
HeldStepExact(d, raw, out) ==
    IF out.path \in {"dispute_applied", "resolve_applied", "chargeback_applied"}
    THEN \A b \in {get_balance_transfer(d, raw.client_id, raw.txn_id)} :
            ExactSum(d.Clients[raw.client_id].held,
                     IF out.path = "dispute_applied"
                     THEN Abs(b.amount) ELSE -Abs(b.amount))
    ELSE TRUE

\* C33 (amended): a new account has held = 0, and every command that returns
\* Ok keeps held equal to the sum of the magnitudes of the client's transfers
\* whose dispute is open, and so not negative, provided held was equal to that
\* sum before the command and the f64 addition or subtraction that the command
\* performs on held is exact.
C33_HeldFollowsOpenSumWhenExact ==
    \A raw \in RawInputsAnyTxn :
        \A out \in {process(db, num_processed, raw)} :
            (out.result = "Ok" /\ raw.client_id \in DOMAIN out.db.Clients) =>
                IF raw.client_id \notin DOMAIN db.Clients
                THEN /\ out.db.Clients[raw.client_id].held = 0
                     /\ OpenSum(db, raw.client_id) = 0
                ELSE (/\ db.Clients[raw.client_id].held = OpenSum(db, raw.client_id)
                      /\ HeldStepExact(db, raw, out)) =>
                         /\ out.db.Clients[raw.client_id].held =
                                OpenSum(out.db, raw.client_id)
                         /\ out.db.Clients[raw.client_id].held >= 0

\* a client with two open disputes whose held is their sum; resolving one of
\* them exactly leaves the magnitude of the other in held
C33_Witness ==
    /\ path = "dispute_applied"
    /\ \E c \in DOMAIN db.Clients :
        /\ Cardinality(OpenTransfers(db, c)) = 2
        /\ db.Clients[c].held = OpenSum(db, c)
        /\ \E b \in OpenTransfers(db, c) :
            \E raw \in {ResolveOf(c, b.txn_id)} :
                \E out \in {process(db, num_processed, raw)} :
                    /\ out.path = "resolve_applied"
                    /\ HeldStepExact(db, raw, out)
                    /\ out.db.Clients[c].held = OpenSum(out.db, c)
                    /\ out.db.Clients[c].held > 0

\* ------------------------------------------------------------------------
\* C34 (as claimed): in every reachable state, each client's available equals
\* the sum of the signed amounts of that client's stored transfers, minus the
\* amounts of its deposits whose dispute is open or charged back, plus the
\* magnitudes of its withdrawals whose dispute was charged back.
\* ------------------------------------------------------------------------
\* what transfer b adds to the available of its client in store d
AvailableShare(d, b) ==
    IF b.amount > 0
    THEN IF TxnState(d, b.txn_id) \in {"Disputed", "Chargeback"} THEN 0 ELSE b.amount
    ELSE IF TxnState(d, b.txn_id) = "Chargeback" THEN 0 ELSE b.amount

RECURSIVE SumOfShares(_, _)
SumOfShares(d, bs) ==
    IF bs = {} THEN 0
    ELSE LET b == CHOOSE x \in bs : TRUE
         IN  AvailableShare(d, b) + SumOfShares(d, bs \ {b})

TransfersOf(d, c) == {b \in d.BalanceTransfers : b.client_id = c}

LedgerAvailable(d, c) == SumOfShares(d, TransfersOf(d, c))

\* checked for the clients whose transfers are all finite
C34_AvailableIsLedgerSum ==
    result = "Ok" =>
        \A c \in DOMAIN db.Clients :
            (\A b \in TransfersOf(db, c) : Abs(b.amount) <= MaxFinite) =>
                db.Clients[c].available = LedgerAvailable(db, c)

\* the f64 operation that the record raw performs on available is exact
AvailableStepExact(d, raw, out) ==
    IF out.path = "transfer_applied"
    THEN ExactSum(d.Clients[raw.client_id].available,
                  IF raw.txn_type = "Deposit" THEN raw.amount.val ELSE -raw.amount.val)
    ELSE IF out.path \in {"dispute_applied", "resolve_applied", "chargeback_applied"}
    THEN \A b \in {get_balance_transfer(d, raw.client_id, raw.txn_id)} :
            CASE out.path = "dispute_applied" /\ b.amount > 0 ->
                     ExactSum(d.Clients[raw.client_id].available, -b.amount)
              [] out.path = "resolve_applied" /\ b.amount > 0 ->
                     ExactSum(d.Clients[raw.client_id].available, b.amount)
              [] out.path = "chargeback_applied" /\ b.amount < 0 ->
                     ExactSum(d.Clients[raw.client_id].available, -b.amount)
              [] OTHER -> TRUE
    ELSE TRUE

\* the store d with an account for client c (the one process creates)
WithAccount(d, c) ==
    IF has_client_state(d, c) THEN d ELSE create_client_state(d, c).db

\* C34 (amended): a new account has available = 0, and every command that
\* returns Ok keeps available equal to the sum of the signed amounts of the
\* client's stored transfers, minus its deposits whose dispute is open or
\* charged back, plus the magnitudes of its withdrawals whose dispute was
\* charged back, provided available was equal to that value before the command
\* and the f64 addition or subtraction that the command performs on available
\* is exact.
C34_AvailableFollowsLedgerWhenExact ==
    \A raw \in RawInputsAnyTxn :
        \A out \in {process(db, num_processed, raw)} :
            (out.result = "Ok" /\ raw.client_id \in DOMAIN out.db.Clients) =>
                \A d \in {WithAccount(db, raw.client_id)} :
                    /\ raw.client_id \notin DOMAIN db.Clients =>
                        /\ d.Clients[raw.client_id].available = 0
                        /\ LedgerAvailable(d, raw.client_id) = 0
                    /\ (/\ d.Clients[raw.client_id].available =
                               LedgerAvailable(d, raw.client_id)
                        /\ AvailableStepExact(d, raw, out)) =>
                           out.db.Clients[raw.client_id].available =
                               LedgerAvailable(out.db, raw.client_id)

\* a client with a withdrawal and a deposit under dispute whose available,
\* a negative value, is the ledger value
C34_Witness ==
    /\ result = "Ok"
    /\ \E c \in DOMAIN db.Clients :
        /\ \E b \in TransfersOf(db, c) :
            b.amount > 0 /\ TxnState(db, b.txn_id) \in {"Disputed", "Chargeback"}
        /\ \E b \in TransfersOf(db, c) :
            b.amount < 0 /\ Abs(b.amount) <= MaxFinite
        /\ db.Clients[c].available = LedgerAvailable(db, c)
        /\ db.Clients[c].available < 0

\* ------------------------------------------------------------------------
\* C35 (as claimed): a client's available is negative only if at least one of
\* that client's deposits has been disputed and not resolved (its dispute is
\* open or charged back); no sequence made only of deposits, withdrawals,
\* disputes of withdrawals and resolves makes available negative.
\* ------------------------------------------------------------------------
\* the deposits of client c whose dispute is open or charged back in store d
UnresolvedDeposits(d, c) ==
    {b \in TransfersOf(d, c) :
        b.amount > 0 /\ TxnState(d, b.txn_id) \in {"Disputed", "Chargeback"}}

\* the deposits of client c that were disputed at some time
DisputedDeposits(d, c) ==
    {b \in TransfersOf(d, c) :
        b.amount > 0 /\ TxnState(d, b.txn_id) \in {"Disputed", "Resolved", "Chargeback"}}

C35_NegativeOnlyByUnresolvedDeposit ==
    \A c \in DOMAIN db.Clients :
        db.Clients[c].available < 0 => UnresolvedDeposits(db, c) # {}

\* C35 (amended): a client's available is negative only if at least one of
\* that client's deposits has been disputed, the dispute being open, charged
\* back or resolved; no sequence made only of deposits, withdrawals, disputes
\* of withdrawals and resolves and chargebacks of those disputes makes
\* available negative.
C35_NegativeOnlyByDisputedDeposit ==
    \A c \in DOMAIN db.Clients :
        /\ db.Clients[c].available < 0 => DisputedDeposits(db, c) # {}
        /\ DisputedDeposits(db, c) = {} => db.Clients[c].available >= 0
        /\ \A raw \in RawInputsAnyTxn :
            \A out \in {process(db, num_processed, raw)} :
                (raw.client_id = c /\ DisputedDeposits(out.db, c) = {}) =>
                    out.db.Clients[c].available >= 0

\* a deposit whose funds were withdrawn has just been disputed: available is
\* negative and the dispute is open
C35_Witness ==
    /\ path = "dispute_applied"
    /\ \E c \in DOMAIN db.Clients :
        /\ db.Clients[c].available < 0
        /\ UnresolvedDeposits(db, c) # {}
        /\ \E b \in TransfersOf(db, c) : b.amount < 0

\* ------------------------------------------------------------------------
\* C36: a withdrawal rejected for insufficient funds does not reserve its
\* transaction id: because the funds check runs before the insert, a later
\* deposit or withdrawal (of any client) reusing that id is applied normally,
\* and the rejected id cannot be disputed until then.
\* ------------------------------------------------------------------------
C36_RejectedIdStaysFree ==
    \A c \in ClientIds, t \in AnyTxnIds, a \in ValidAmounts :
        \A out \in {process(db, num_processed, WithdrawalOf(c, t, a))} :
            (out.path = "insufficient_funds" /\ ~TxnIdUsed(db, t)) =>
                /\ out.result = "Ok"
                /\ out.num_processed = num_processed
                /\ out.db = WithAccount(db, c)
                /\ ~TxnIdUsed(out.db, t)
                /\ \A c2 \in ClientIds :
                    /\ \A ty \in {"Dispute", "Resolve", "Chargeback"} :
                        \A r \in {process(out.db, out.num_processed,
                                          RawTxnInput(ty, c2, t, NoAmount))} :
                            /\ r.path \in RejectedPaths \cup {"locked"}
                            /\ r.db.Disputes = out.db.Disputes
                            /\ r.db.Resolutions = out.db.Resolutions
                    /\ ~Locked(out.db, c2) =>
                        \A a2 \in ValidAmounts :
                            /\ \A dep \in {process(out.db, out.num_processed,
                                                   DepositOf(c2, t, a2))} :
                                /\ dep.path = "transfer_applied"
                                /\ has_balance_transfer(dep.db, c2, t)
                                /\ a2 # INF =>
                                       process(dep.db, dep.num_processed,
                                               DisputeOf(c2, t)).path = "dispute_applied"
                            /\ (a2 <= AvailableOf(out.db, c2)
                                    /\ ~(a2 = INF /\ AvailableOf(out.db, c2) = INF)) =>
                                \A wd \in {process(out.db, out.num_processed,
                                                   WithdrawalOf(c2, t, a2))} :
                                    /\ wd.path = "transfer_applied"
                                    /\ has_balance_transfer(wd.db, c2, t)

\* a withdrawal has just been rejected for insufficient funds; a client with
\* funds is refused a too large withdrawal under an unused transaction id,
\* cannot dispute that id, and then withdraws a smaller amount under it
C36_Witness ==
    /\ path = "insufficient_funds"
    /\ \E c \in DOMAIN db.Clients, t \in TxnIds :
        /\ ~TxnIdUsed(db, t)
        /\ db.Clients[c].available = 2
        /\ \E out \in {process(db, num_processed, WithdrawalOf(c, t, Pow2(P) - 1))} :
            /\ out.path = "insufficient_funds"
            /\ process(out.db, out.num_processed, DisputeOf(c, t)).path = "dispute_rejected"
            /\ process(out.db, out.num_processed,
                       WithdrawalOf(c, t, 2)).path = "transfer_applied"

\* ------------------------------------------------------------------------
\* C37: when a chargeback locks an account while other disputes of that client
\* are still open, those disputes stay open forever and their amounts stay in
\* held: after the lock held is constant and can be greater than zero, and no
\* later resolve or chargeback releases it.
\* ------------------------------------------------------------------------
C37_HeldFrozenAfterLock ==
    [][\A c \in DOMAIN db.Clients :
          Locked(db, c) =>
              /\ c \in DOMAIN db'.Clients
              /\ Locked(db', c)
              /\ db'.Clients[c].held = db.Clients[c].held
              /\ OpenTransfers(db', c) = OpenTransfers(db, c)]_vars

\* a locked client with an open dispute and funds held, whose resolve and
\* chargeback of that dispute have no effect; the last command was ignored
\* because of the lock
C37_Witness ==
    /\ path = "locked"
    /\ \E c \in DOMAIN db.Clients :
        /\ Locked(db, c)
        /\ db.Clients[c].held > 0
        /\ \E b \in OpenTransfers(db, c) :
            /\ process(db, num_processed, ResolveOf(c, b.txn_id)).db = db
            /\ process(db, num_processed, ChargebackOf(c, b.txn_id)).db = db

\* ------------------------------------------------------------------------
\* C38: two validated commands that name different clients and reference
\* different transaction ids commute: applying them in either order from the
\* same state yields the same store state (accounts, transfers, disputes,
\* resolutions).
\* ------------------------------------------------------------------------
\* the second call of a sequence; it is not made when the first call failed
ProcessNext(o1, r2) ==
    IF o1.result = "Ok" THEN process(o1.db, o1.num_processed, r2) ELSE o1

\* the records that validate_raw_input turns into a command
ValidatedInputs ==
    {raw \in RawInputsAnyTxn : validate_raw_input(raw).kind # "None"}

InputsOf(c) == {raw \in ValidatedInputs : raw.client_id = c}

C38_DisjointCommandsCommute ==
    \A c1, c2 \in ClientIds :
        c1 < c2 =>
            \A r1 \in InputsOf(c1) :
                \A o1 \in {process(db, num_processed, r1)} :
                    \A r2 \in InputsOf(c2) :
                        r1.txn_id # r2.txn_id =>
                            \A o12 \in {ProcessNext(o1, r2)},
                               o21 \in {ProcessNext(process(db, num_processed, r2), r1)} :
                                /\ o12.result = o21.result
                                /\ o12.result = "Ok" =>
                                    /\ o12.db = o21.db
                                    /\ o12.num_processed = o21.num_processed

\* a dispute by one client and a deposit under another transaction id by the
\* other client are both applied, in either order, and give the same store
C38_Witness ==
    \E b \in db.BalanceTransfers, c2 \in ClientIds, t2 \in TxnIds :
        /\ c2 # b.client_id
        /\ t2 # b.txn_id
        /\ \E r1 \in {DisputeOf(b.client_id, b.txn_id)}, r2 \in {DepositOf(c2, t2, 2)} :
            \E o1 \in {process(db, num_processed, r1)},
               o2 \in {process(db, num_processed, r2)} :
                /\ o1.path = "dispute_applied"
                /\ o2.path = "transfer_applied"
                /\ o1.db # o2.db
                /\ \E o12 \in {ProcessNext(o1, r2)}, o21 \in {ProcessNext(o2, r1)} :
                    /\ o12.path = "transfer_applied"
                    /\ o21.path = "dispute_applied"
                    /\ o12.db = o21.db

====
